---------------------------- MODULE Spec2Model ----------------------------
(***************************************************************************)
(* Model of the exaspoon-db-mcp tool gateway: ExaspoonDbServer (server.rs) *)
(* on top of EmbeddingService (embedding.rs) and SupabaseGateway           *)
(* (supabase.rs).                                                          *)
(*                                                                         *)
(* Representation.                                                         *)
(*   String        a tuple of one-character strings, "" is << >>           *)
(*   Option<T>     None is << >>, Some(x) is << x >>                       *)
(*   Vec<f32>      a tuple of numbers                                      *)
(*   JSON value    a tagged record: Null, Str(s), Vec(v), Num(n)           *)
(*   JSON object   a TLA+ record column -> JSON value (a payload, a row)   *)
(* Every await of an external answer (an embedding request, a row-store    *)
(* request, the send of an RPC POST, the read of its body) is one atomic   *)
(* step; a tool invocation is suspended between two of them.               *)
(***************************************************************************)
EXTENDS Integers, Sequences, FiniteSets, TLC

VARIABLES
    tables,     \* the row store: table name -> set of rows
    nextId,     \* number of identifiers the row store has generated
    inv,        \* the tool invocation running in each task slot
    started,    \* number of tool invocations started so far
    embedLog,   \* embedding requests received by the provider, in order
    storeLog,   \* writes committed by the row store, in order
    boot        \* the process: its environment and how far main has come

vars == <<tables, nextId, inv, started, embedLog, storeLog, boot>>

-----------------------------------------------------------------------------
(* Bounds of the model. *)

\* Tool invocations started in one behaviour of Spec (concurrent tasks).
MaxInvocations == 2

\* Upserts started in one behaviour of RaceSpec (concurrent tasks).
MaxRaceInvocations == 2

\* Upserts started in one behaviour of SeqSpec or of AccountSpec (one at
\* a time).
MaxSeqInvocations == 3

\* Invocations started in one behaviour of InputSpec (one at a time).
MaxInputInvocations == 1

\* Searches started in one behaviour of LimitSpec (one at a time).
MaxLimitInvocations == 1

\* The limits from 0 to MaxLimit are all requested in LimitSpec.
MaxLimit == 40

\* list_accounts invocations started in one behaviour of ListSpec (one
\* at a time).
MaxListInvocations == 2

\* Invocations started in one behaviour of FairSpec (one at a time).
MaxFairInvocations == 2

\* Searches started in one behaviour of RpcSpec (one at a time).
MaxRpcInvocations == 2

\* list_accounts invocations started in one behaviour of StartupSpec.
MaxStartupInvocations == 1

\* Upserts started in one behaviour of ForeignSpec (one at a time).
MaxForeignInvocations == 2

\* Writes started in one behaviour of DuplicateSpec (concurrent tasks).
MaxDuplicateInvocations == 2

\* Upserts started in one behaviour of OverwriteSpec (one at a time).
MaxOverwriteInvocations == 2

\* create_transaction invocations started in one behaviour of DoubleSpec
\* (one at a time).
MaxDoubleInvocations == 2

\* The task slots: two invocations can be in flight at once.
Procs == {"t1", "t2"}

\* The slot that serves the invocations that run one at a time.
Main == "t1"

-----------------------------------------------------------------------------
(* Strings, options, JSON values. *)

None == << >>

Some(x) == << x >>

is_some(o) == Len(o) = 1

unwrap(o) == o[1]

unwrap_or(o, d) == IF is_some(o) THEN o[1] ELSE d

Null == [t |-> "null"]

Str(s) == [t |-> "str", v |-> s]

Vec(v) == [t |-> "vec", v |-> v]

Num(n) == [t |-> "num", v |-> n]

\* serde_json of an Option<String>: null or a string.
OptStr(o) == IF is_some(o) THEN Str(unwrap(o)) ELSE Null

\* serde_json of an Option<Vec<f32>>: null or an array.
OptVec(o) == IF is_some(o) THEN Vec(unwrap(o)) ELSE Null

\* The characters str::trim removes (Unicode White_Space, as far as the
\* model's alphabet has them).
White_Space == {" ", "\t", "\n"}

RECURSIVE trim_start(_)
trim_start(s) ==
    IF s = << >> \/ Head(s) \notin White_Space THEN s ELSE trim_start(Tail(s))

RECURSIVE trim_end(_)
trim_end(s) ==
    IF s = << >> \/ s[Len(s)] \notin White_Space
    THEN s
    ELSE trim_end(SubSeq(s, 1, Len(s) - 1))

\* str::trim
trim(s) == trim_end(trim_start(s))

\* str::is_empty
is_empty(s) == Len(s) = 0

RECURSIVE trim_start_matches(_, _)
trim_start_matches(s, c) ==
    IF s = << >> \/ Head(s) # c THEN s ELSE trim_start_matches(Tail(s), c)

RECURSIVE trim_end_matches(_, _)
trim_end_matches(s, c) ==
    IF s = << >> \/ s[Len(s)] # c
    THEN s
    ELSE trim_end_matches(SubSeq(s, 1, Len(s) - 1), c)

\* str::trim_matches(char)
trim_matches(s, c) == trim_end_matches(trim_start_matches(s, c), c)


-----------------------------------------------------------------------------
(* The inputs the tool invocations are drawn from. *)

Food == <<"F", "o", "o", "d">>

Rent == <<"R", "e", "n", "t">>

Checking == <<"C", "h", "k">>

Other == <<"O", "t">>

\* Texts for descriptions and queries: blank ones, one that trimming leaves
\* alone and ones that trimming changes.
Blank == <<" ", " ">>

Coffee == <<"c", "o">>

PaddedCoffee == <<" ", "c", "o", " ">>

Meals == <<"m", "e", " ">>

USD == <<"U", "S", "D">>

\* models.rs: the fields of a CreateTransactionInput other than description
CreateTransactionInput(description) ==
    [account_id |-> <<"a", "1">>, amount |-> 42, currency |-> USD,
     direction |-> "expense", occurred_at |-> <<"2", "4">>,
     description |-> description, raw_source |-> None]

\* The vectors the embedding provider answers with.
V1 == <<1, 2>>

V2 == <<3>>

\* What the provider's embeddings endpoint answers: a transport failure or
\* non-success response, or a success carrying a list of candidates.
ProviderResponses ==
    {[ok |-> FALSE, data |-> << >>],
     [ok |-> TRUE, data |-> << >>],
     [ok |-> TRUE, data |-> <<V1>>],
     [ok |-> TRUE, data |-> <<V2, V1>>]}

\* The body of an HTTP response: text that is no JSON array, or a JSON
\* array.
TextBody(text) == [t |-> "text", v |-> text]

ArrayBody(rows) == [t |-> "array", v |-> rows]

\* reqwest Response::text: the body as text; a non-empty array is
\* rendered as "[..]".
body_text(body) ==
    IF body.t = "text" THEN body.v
    ELSE IF body.v = << >> THEN "[]" ELSE "[..]"

\* An HTTP status line.
Status(code, reason) == [code |-> code, reason |-> reason]

\* What a POST to an RPC function comes to: the request gets no
\* response, or a response with a status and a body arrives.
NoResponse ==
    [transport |-> "request failed", status |-> Status(0, ""), body |-> TextBody("")]

Response(status, body) == [transport |-> "ok", status |-> status, body |-> body]

\* The RPC outcomes of most specifications that carry no rows: no
\* response, a 500 with a text body, a 200 whose body is a JSON object.
PlainRpc ==
    {NoResponse,
     Response(Status(500, "Internal Server Error"), TextBody("boom")),
     Response(Status(200, "OK"), TextBody("{}"))}

\* The requests and provider responses of Spec: one request per
\* operation; the category is new to the store, the account is in it.
Menu ==
    [create_transaction |-> {CreateTransactionInput(Some(Coffee))},
     search_similar_transactions |-> {[query |-> Coffee, limit |-> Some(1)]},
     upsert_category |->
        {[name |-> Rent, kind |-> Some("income"), description |-> None]},
     search_similar_categories |-> {[query |-> PaddedCoffee, limit |-> Some(100)]},
     list_accounts |-> {[type |-> None, search |-> Some(<<"C", "H">>)]},
     upsert_account |->
        {[name |-> Checking, type |-> "offchain", currency |-> USD,
          network |-> Some(<<"e", "t", "h">>), institution |-> None]},
     rpc |-> PlainRpc,
     statuses |-> {Status(200, "OK")},
     provider |->
        {[ok |-> FALSE, data |-> << >>], [ok |-> TRUE, data |-> <<V1>>]}]

\* The requests and provider responses of RaceSpec: upserts that meet on
\* one natural key, a category and an account new to the store and an
\* account in it, that one with two payloads.
RaceMenu ==
    [upsert_category |->
        {[name |-> Rent, kind |-> None, description |-> Some(Coffee)]},
     upsert_account |->
        {[name |-> Checking, type |-> "offchain", currency |-> USD,
          network |-> None, institution |-> None],
         [name |-> Checking, type |-> "offchain", currency |-> USD,
          network |-> Some(<<"e", "t", "h">>), institution |-> None],
         [name |-> Other, type |-> "onchain", currency |-> USD,
          network |-> None, institution |-> None]},
     provider |->
        {[ok |-> FALSE, data |-> << >>], [ok |-> TRUE, data |-> <<V1>>]}]

\* The requests and provider responses of SeqSpec: category upserts over
\* two names and several payloads; the provider answers with one of two
\* vectors.
SeqMenu ==
    [upsert_category |->
        [name : {Food}, kind : {None}, description : {Some(Coffee), Some(Meals)}]
            \cup {[name |-> Food, kind |-> Some("income"), description |-> None],
                  [name |-> Rent, kind |-> None, description |-> Some(Coffee)]},
     provider |->
        {[ok |-> FALSE, data |-> << >>], [ok |-> TRUE, data |-> <<V1>>],
         [ok |-> TRUE, data |-> <<V2>>]}]

\* The requests and provider responses of AccountSpec: account upserts
\* over two names, two types and two payloads; the provider answers with
\* one of two vectors.
AccountMenu ==
    [upsert_account |->
        [name : {Checking}, type : {"offchain"}, currency : {USD},
         network : {None, Some(<<"e", "t", "h">>)}, institution : {None}]
            \cup [name : {Checking, Other}, type : {"onchain"}, currency : {USD},
                  network : {None}, institution : {None}],
     provider |->
        {[ok |-> FALSE, data |-> << >>], [ok |-> TRUE, data |-> <<V1>>],
         [ok |-> TRUE, data |-> <<V2>>]}]

\* The requests and provider responses of InputSpec: absent, empty, blank,
\* plain and padded texts, every limit class, every provider response.
InputMenu ==
    [create_transaction |->
        {CreateTransactionInput(d) :
            d \in {None, Some(<< >>), Some(Blank), Some(Coffee), Some(PaddedCoffee),
                   Some(Meals)}},
     search_similar_transactions |->
        [query : {<< >>, Blank, <<"\t">>, Coffee, PaddedCoffee},
         limit : {None, Some(0), Some(7), Some(100)}],
     search_similar_categories |->
        [query : {<< >>, Blank, <<"\n", " ">>, Coffee, Meals},
         limit : {None, Some(0), Some(7), Some(100)}],
     rpc |-> PlainRpc,
     statuses |-> {Status(200, "OK")},
     provider |-> ProviderResponses]

\* The limits requested in LimitSpec: none, every limit from 0 to
\* MaxLimit, and large limits up to the largest integer of the model
\* checker.
Limits ==
    {None} \cup {Some(n) : n \in 0..MaxLimit}
        \cup {Some(100), Some(65536), Some(2147483647)}

\* The requests and provider responses of LimitSpec: one query with each
\* of the limits.
LimitMenu ==
    [search_similar_transactions |-> [query : {Coffee}, limit : Limits],
     rpc |-> PlainRpc,
     statuses |-> {Status(200, "OK")},
     provider |-> {[ok |-> TRUE, data |-> <<V1>>]}]

\* The requests of ListSpec: every type filter with absent, empty, blank,
\* lower-case, upper-case, padded and unmatched search terms.
ListMenu ==
    [list_accounts |->
        [type : {None, Some("onchain"), Some("offchain")},
         search : {None, Some(<< >>), Some(Blank), Some(<<"c", "h">>),
                   Some(<<"C", "H">>), Some(<<" ", "C", "h", " ">>), Some(<<"x">>)}]]

\* The requests and provider responses of WorkflowSpec: the account, the
\* category with and without a description, the transaction and the
\* search of the complete workflow.
WorkflowMenu ==
    [upsert_account |->
        [name : {Checking}, type : {"offchain"}, currency : {USD}, network : {None},
         institution : {None, Some(<<"T", "B">>)}],
     upsert_category |->
        [name : {Food}, kind : {Some("expense")}, description : {None, Some(Meals)}],
     create_transaction |-> {CreateTransactionInput(Some(Coffee))},
     search_similar_transactions |-> {[query |-> Coffee, limit |-> Some(5)]},
     rpc |-> PlainRpc,
     statuses |-> {Status(200, "OK")},
     provider |->
        {[ok |-> FALSE, data |-> << >>], [ok |-> TRUE, data |-> <<V1>>]}]

\* The requests, provider responses and RPC outcomes of RpcSpec: searches
\* answered with 2xx and non-2xx statuses, with and without an array as
\* the body, or not answered.
RpcMenu ==
    [search_similar_transactions |-> {[query |-> Coffee, limit |-> Some(1)]},
     search_similar_categories |-> [query : {Coffee}, limit : {None, Some(1)}],
     rpc |->
        {NoResponse,
         Response(Status(500, "Internal Server Error"), TextBody("boom")),
         Response(Status(503, "Service Unavailable"), TextBody("")),
         Response(Status(302, "Found"), TextBody("")),
         Response(Status(200, "OK"), TextBody("{}")),
         Response(Status(204, "No Content"), TextBody(""))},
     statuses |-> {Status(200, "OK"), Status(201, "Created"), Status(404, "Not Found")},
     provider |->
        {[ok |-> FALSE, data |-> << >>], [ok |-> TRUE, data |-> <<V1>>]}]

\* The requests and provider responses of ForeignSpec: upserts on keys
\* whose rows have no id that is a string, and on keys with no row.
ForeignMenu ==
    [upsert_category |->
        [name : {Food, Rent}, kind : {None}, description : {Some(Coffee)}],
     upsert_account |->
        [name : {Checking, Other}, type : {"offchain"}, currency : {USD},
         network : {None}, institution : {None}],
     provider |->
        {[ok |-> FALSE, data |-> << >>], [ok |-> TRUE, data |-> <<V1>>]}]

\* The requests and provider responses of DuplicateSpec: the writing
\* operations, the category upserts on the name that has two rows.
DuplicateMenu ==
    [create_transaction |-> {CreateTransactionInput(None)},
     upsert_category |->
        [name : {Food}, kind : {None, Some("income")}, description : {Some(Coffee)}],
     upsert_account |->
        {[name |-> Checking, type |-> "offchain", currency |-> USD,
          network |-> None, institution |-> None]},
     provider |-> {[ok |-> TRUE, data |-> <<V1>>]}]

\* The requests and provider responses of OverwriteSpec: upserts on the
\* stored category and the stored account, with each optional field
\* given and omitted, and on a category that is not stored.
OverwriteMenu ==
    [upsert_category |->
        [name : {Food}, kind : {None, Some("transfer")},
         description : {None, Some(Coffee)}]
            \cup {[name |-> Rent, kind |-> None, description |-> None]},
     upsert_account |->
        [name : {Checking}, type : {"offchain"}, currency : {USD},
         network : {None, Some(<<"s", "o", "l">>)},
         institution : {None, Some(<<"T", "B">>)}],
     provider |->
        {[ok |-> FALSE, data |-> << >>], [ok |-> TRUE, data |-> <<V1>>]}]

\* The requests and provider responses of DisjointSpec for the first
\* task: upserts on the stored category and the stored account, and on
\* an account with no row.
LeftMenu ==
    [upsert_category |->
        {[name |-> Food, kind |-> Some("income"), description |-> None]},
     upsert_account |->
        {[name |-> Checking, type |-> "offchain", currency |-> USD,
          network |-> Some(<<"e", "t", "h">>), institution |-> None],
         [name |-> Other, type |-> "onchain", currency |-> USD,
          network |-> None, institution |-> None]},
     provider |->
        {[ok |-> FALSE, data |-> << >>], [ok |-> TRUE, data |-> <<V1>>]}]

\* The requests and provider responses of DisjointSpec for the second
\* task: upserts on keys with no row, one of them an account with the
\* stored account's name and another type.
RightMenu ==
    [upsert_category |->
        {[name |-> Rent, kind |-> None, description |-> Some(Coffee)]},
     upsert_account |->
        {[name |-> Checking, type |-> "onchain", currency |-> USD,
          network |-> None, institution |-> None],
         [name |-> Other, type |-> "offchain", currency |-> USD,
          network |-> None, institution |-> None]},
     provider |->
        {[ok |-> FALSE, data |-> << >>], [ok |-> TRUE, data |-> <<V1>>]}]

-----------------------------------------------------------------------------
(* Results of a tool invocation (server.rs). *)

\* anyhow Result
Ok(v) == [ok |-> TRUE, value |-> v]

Err(e) == [ok |-> FALSE, err |-> e]

\* server.rs: success, wrapped under the operation's result key
success(key, value) == [ok |-> TRUE, key |-> key, value |-> value]

\* server.rs: McpError::invalid_params("query must not be empty", {field})
invalid_params(message, field) ==
    [ok |-> FALSE, code |-> "invalid_params", message |-> message,
     data |-> [field |-> field]]

\* server.rs: internal_error
internal_error(action, err) ==
    [ok |-> FALSE, code |-> "internal_error",
     message |-> "Failed to " \o action, data |-> [details |-> err]]

-----------------------------------------------------------------------------
(* EmbeddingService (embedding.rs). *)

\* Mutant of embed: the vector of the last candidate is returned.
embed_LastCandidate(resp) ==
    IF ~resp.ok
    THEN Err("embedding request failed")
    ELSE IF resp.data = << >>
         THEN Err("OpenAI did not return embedding data")
         ELSE Ok(resp.data[Len(resp.data)])

\* embedding.rs: EmbeddingService::embed, given the provider's response:
\* the first candidate's vector, or one of two errors.
embed(resp) ==
    IF ~resp.ok
    THEN Err("embedding request failed")
    ELSE IF resp.data = << >>
         THEN Err("OpenAI did not return embedding data")
         ELSE Ok(Head(resp.data))

\* embedding.rs: EmbeddingService::maybe_embed. Some(t): embed is called
\* with t; None: no call, and the result is Ok(None).
maybe_embed(text) ==
    IF is_some(text) /\ ~is_empty(trim(unwrap(text)))
    THEN Some(unwrap(text))
    ELSE None

-----------------------------------------------------------------------------
(* The Embedder trait (embedding.rs) and its implementations: the
   production EmbeddingService, MockEmbedder (tests/common/mod.rs) and
   FakeEmbedder (server.rs, mod tests). *)

Embedders == {"EmbeddingService", "MockEmbedder", "FakeEmbedder"}

\* The vector a test double is constructed with.
DoubleVector == V1

\* The test doubles ask no provider: their embed answers from the vector
\* they hold.
OwnVector == [ok |-> TRUE, data |-> <<DoubleVector>>]

\* tests/common/mod.rs: MockEmbedder::embed records the text and returns
\* Ok(self.vector.clone()).
MockEmbedder_embed(resp) == Ok(Head(resp.data))

\* tests/common/mod.rs: MockEmbedder::maybe_embed. Some(value): embed is
\* called with value, whatever it holds; None: no call.
MockEmbedder_maybe_embed(text) == IF is_some(text) THEN Some(unwrap(text)) ELSE None

\* server.rs, mod tests: FakeEmbedder::embed
FakeEmbedder_embed(resp) == Ok(Head(resp.data))

\* server.rs, mod tests: FakeEmbedder::maybe_embed
FakeEmbedder_maybe_embed(text) == IF is_some(text) THEN Some(unwrap(text)) ELSE None

\* The record a test double keeps of the texts it was asked to embed
\* (self.calls.lock().unwrap().push(text.to_string())); the
\* EmbeddingService keeps none.
dyn_record(impl, calls, text) ==
    IF impl = "EmbeddingService" THEN calls ELSE Append(calls, text)

\* self.embedder.embed(...) on the server's Arc<dyn Embedder>
dyn_embed(impl, resp) ==
    CASE impl = "EmbeddingService" -> embed(resp)
      [] impl = "MockEmbedder" -> MockEmbedder_embed(resp)
      [] impl = "FakeEmbedder" -> FakeEmbedder_embed(resp)

\* self.embedder.maybe_embed(...) on the server's Arc<dyn Embedder>
dyn_maybe_embed(impl, text) ==
    CASE impl = "EmbeddingService" -> maybe_embed(text)
      [] impl = "MockEmbedder" -> MockEmbedder_maybe_embed(text)
      [] impl = "FakeEmbedder" -> FakeEmbedder_maybe_embed(text)

\* What embed can be answered with: the provider's responses for the
\* EmbeddingService, the held vector for a test double.
EmbedAnswers(impl, provider) ==
    IF impl = "EmbeddingService" THEN provider ELSE {OwnVector}

-----------------------------------------------------------------------------
(* SupabaseGateway (supabase.rs): the pure parts. *)

\* supabase.rs: insert_transaction, the json! payload
transaction_payload(input, embedding) ==
    [account_id |-> Str(input.account_id),
     amount |-> Num(input.amount),
     currency |-> Str(input.currency),
     direction |-> Str(input.direction),
     occurred_at |-> Str(input.occurred_at),
     description |-> OptStr(input.description),
     raw_source |-> OptStr(input.raw_source),
     embedding |-> OptVec(embedding)]

\* Mutant of category_payload: a kind that is omitted is left out of the
\* payload.
category_payload_Sparse(input, embedding) ==
    IF is_some(input.kind)
    THEN [name |-> Str(input.name),
          kind |-> Str(unwrap(input.kind)),
          description |-> Str(unwrap_or(input.description, input.name)),
          embedding |-> OptVec(embedding)]
    ELSE [name |-> Str(input.name),
          description |-> Str(unwrap_or(input.description, input.name)),
          embedding |-> OptVec(embedding)]

\* supabase.rs: upsert_category, the json! payload
category_payload(input, embedding) ==
    [name |-> Str(input.name),
     kind |-> Str(unwrap_or(input.kind, "expense")),
     description |-> Str(unwrap_or(input.description, input.name)),
     embedding |-> OptVec(embedding)]

\* supabase.rs: upsert_account, the json! payload
account_payload(input) ==
    [name |-> Str(input.name),
     type |-> Str(input.type),
     currency |-> Str(input.currency),
     network |-> OptStr(input.network),
     institution |-> OptStr(input.institution)]

\* supabase.rs: the filters of the natural-key select of upsert_category
category_key(input) == << <<"name", input.name>> >>

\* Mutant of account_key: the select filters on the name alone.
account_key_NameOnly(input) == << <<"name", input.name>> >>

\* supabase.rs: fetch_account, the filters of the natural-key select
account_key(input) == << <<"name", input.name>>, <<"type", input.type>> >>

\* supabase.rs: fetch_by_id, the filter of the select by id
id_key(id) == << <<"id", id>> >>

\* Mutant of extract_id: a row without an id that is a string has the
\* empty id.
extract_id_OrEmpty(value) ==
    IF "id" \in DOMAIN value /\ value.id.t = "str" THEN Ok(value.id.v) ELSE Ok(<< >>)

\* supabase.rs: extract_id
extract_id(value) ==
    IF "id" \in DOMAIN value /\ value.id.t = "str"
    THEN Ok(value.id.v)
    ELSE Err("row missing id column")

\* supabase.rs: normalize_id
normalize_id(id) == trim_matches(id, "\"")

\* Mutant of clamp: the lower bound is not applied.
clamp_NoFloor(x, lo, hi) == IF x > hi THEN hi ELSE x

\* u32::clamp
clamp(x, lo, hi) == IF x < lo THEN lo ELSE IF x > hi THEN hi ELSE x

\* Mutant of resolve_limit: the requested limit is passed on as it is.
resolve_limit_Unclamped(limit) == unwrap_or(limit, 5)

\* supabase.rs: resolve_limit
resolve_limit(limit) == clamp(unwrap_or(limit, 5), 1, 25)

\* supabase.rs: the RPC function each search calls
rpc_function(op) ==
    IF op = "search_similar_transactions"
    THEN "search_similar_transactions"
    ELSE "search_similar_categories"

-----------------------------------------------------------------------------
(* The row store behind the supabase_rs client, as the gateway sees it. *)

TableNames == {"transactions", "categories", "accounts"}

Digits == <<"1", "2", "3", "4", "5", "6", "7", "8", "9">>

\* The n-th identifier the store generates.
GeneratedId(n) == <<"r", Digits[n]>>

\* An identifier as a JSON string literal, in double quotes.
Quoted(id) == <<"\"">> \o id \o <<"\"">>

\* What client.insert returns for a generated identifier: the bare
\* identifier, or the identifier still in its JSON quotes.
InsertResponses(id) == {id, Quoted(id)}

\* A select's eq filters: the row has each column, with that text.
Matches(row, filters) ==
    \A i \in 1..Len(filters) :
        /\ filters[i][1] \in DOMAIN row
        /\ row[filters[i][1]] = Str(filters[i][2])

\* client.select(table).eq(...): the rows the filters keep.
Select(table, filters) == {r \in tables[table] : Matches(r, filters)}

\* client.insert: the stored row is the payload plus the generated id.
InsertedRow(payload, id) ==
    [c \in DOMAIN payload \cup {"id"} |->
        IF c = "id" THEN Str(id) ELSE payload[c]]

\* Mutant of UpdatedRow: the update is accepted and changes nothing.
UpdatedRow_Unchanged(row, payload) == row

\* client.update: the row's columns the payload names are overwritten.
UpdatedRow(row, payload) ==
    [c \in DOMAIN row |-> IF c \in DOMAIN payload THEN payload[c] ELSE row[c]]

\* Mutant of UpdatedTable: the update is keyed on the payload's name, not
\* on the id.
UpdatedTable_ByName(rows, id, payload) ==
    {IF "name" \in DOMAIN r /\ r.name = payload.name THEN UpdatedRow(r, payload) ELSE r :
        r \in rows}

\* client.update(table, id, payload): every row with that id is patched.
UpdatedTable(rows, id, payload) ==
    {IF Matches(r, id_key(id)) THEN UpdatedRow(r, payload) ELSE r : r \in rows}

-----------------------------------------------------------------------------
(* list_accounts: ordering by the store, filtering by the gateway. *)

\* The model's alphabet in code point order; the upper-case letters sit
\* at the same offsets in UpperCase as their lower-case forms in LowerCase.
UpperCase ==
    <<"A", "B", "C", "D", "E", "F", "G", "H", "I", "J", "K", "L", "M",
      "N", "O", "P", "Q", "R", "S", "T", "U", "V", "W", "X", "Y", "Z">>

LowerCase ==
    <<"a", "b", "c", "d", "e", "f", "g", "h", "i", "j", "k", "l", "m",
      "n", "o", "p", "q", "r", "s", "t", "u", "v", "w", "x", "y", "z">>

Alphabet == <<"\t", "\n", " ", "\"">> \o Digits \o UpperCase \o LowerCase

\* char::to_lowercase
to_lowercase_char(c) ==
    IF \E i \in 1..Len(UpperCase) : UpperCase[i] = c
    THEN LowerCase[CHOOSE i \in 1..Len(UpperCase) : UpperCase[i] = c]
    ELSE c

\* str::to_lowercase
to_lowercase(s) == [i \in 1..Len(s) |-> to_lowercase_char(s[i])]

\* str::contains(&str)
contains(haystack, needle) ==
    \E i \in 0..(Len(haystack) - Len(needle)) :
        SubSeq(haystack, i + 1, i + Len(needle)) = needle

\* Value::get("name").and_then(Value::as_str)
name_of(row) ==
    IF "name" \in DOMAIN row /\ row.name.t = "str" THEN Some(row.name.v) ELSE None

\* Mutant of search_needle: the term is lower-cased and not trimmed, and
\* only the empty term is no filter.
search_needle_Untrimmed(search) ==
    IF is_some(search) /\ ~is_empty(unwrap(search))
    THEN Some(to_lowercase(unwrap(search)))
    ELSE None

\* supabase.rs: list_accounts, the needle of the name filter
search_needle(search) ==
    IF is_some(search) /\ ~is_empty(trim(unwrap(search)))
    THEN Some(to_lowercase(trim(unwrap(search))))
    ELSE None

\* Mutant of name_matches: the name is compared as it is stored.
name_matches_CaseSensitive(row, needle) ==
    /\ is_some(name_of(row))
    /\ contains(unwrap(name_of(row)), needle)

\* supabase.rs: list_accounts, the closure of the name filter
name_matches(row, needle) ==
    /\ is_some(name_of(row))
    /\ contains(to_lowercase(unwrap(name_of(row))), needle)

\* Mutant of filter_accounts: the rows kept are put in the opposite order.
filter_accounts_Reversed(rows, search) ==
    LET kept == IF is_some(search_needle(search))
                THEN SelectSeq(rows, LAMBDA r : name_matches(r, unwrap(search_needle(search))))
                ELSE rows
    IN  [i \in 1..Len(kept) |-> kept[Len(kept) + 1 - i]]

\* supabase.rs: list_accounts, the rows kept of those the store returned
filter_accounts(rows, search) ==
    IF is_some(search_needle(search))
    THEN SelectSeq(rows, LAMBDA r : name_matches(r, unwrap(search_needle(search))))
    ELSE rows

\* supabase.rs: list_accounts, the optional eq filter on type
type_filter(type) == IF is_some(type) THEN << <<"type", unwrap(type)>> >> ELSE << >>

\* Position of a character in the store's collation.
Code(c) == CHOOSE i \in 1..Len(Alphabet) : Alphabet[i] = c

\* a <= b for two strings in the store's collation.
RECURSIVE StrLeq(_, _)
StrLeq(a, b) ==
    IF a = << >> THEN TRUE
    ELSE IF b = << >> THEN FALSE
    ELSE IF Head(a) = Head(b) THEN StrLeq(Tail(a), Tail(b))
    ELSE Code(Head(a)) < Code(Head(b))

\* Row a may come before row b under "order by name asc" (nulls last).
NameLeq(a, b) ==
    IF ~is_some(name_of(b)) THEN TRUE
    ELSE IF ~is_some(name_of(a)) THEN FALSE
    ELSE StrLeq(unwrap(name_of(a)), unwrap(name_of(b)))

\* client.select(table).order("name", true): the orders the store may
\* return a set of rows in.
OrderedByName(rows) ==
    {q \in [1..Cardinality(rows) -> rows] :
        /\ \A i, j \in DOMAIN q : i # j => q[i] # q[j]
        /\ \A i, j \in DOMAIN q : i < j => NameLeq(q[i], q[j])}

-----------------------------------------------------------------------------
(* ExaspoonDbServer (server.rs): what each tool operation is about. *)

Ops ==
    {"create_transaction", "search_similar_transactions", "upsert_category",
     "search_similar_categories", "list_accounts", "upsert_account"}

WriteOps == {"create_transaction", "upsert_category", "upsert_account"}

SearchOps == {"search_similar_transactions", "search_similar_categories"}

\* Mutant of table_of: upsert_category names the transactions table.
table_of_Transactions(op) ==
    CASE op \in {"create_transaction", "search_similar_transactions", "upsert_category"}
            -> "transactions"
      [] op = "search_similar_categories" -> "categories"
      [] OTHER -> "accounts"

\* The table (for a search: the table the RPC function reads) of an operation.
table_of(op) ==
    CASE op \in {"create_transaction", "search_similar_transactions"} -> "transactions"
      [] op \in {"upsert_category", "search_similar_categories"} -> "categories"
      [] OTHER -> "accounts"

\* The key of the result envelope.
result_key(op) ==
    CASE op = "create_transaction" -> "transaction"
      [] op \in SearchOps -> "matches"
      [] op = "upsert_category" -> "category"
      [] op = "list_accounts" -> "accounts"
      [] OTHER -> "account"

\* The action named by internal_error when the embedding step fails.
embed_action(op) ==
    CASE op = "create_transaction" -> "generate transaction embedding"
      [] op \in SearchOps -> "embed query text"
      [] op = "upsert_category" -> "generate category embedding"
      [] OTHER -> "generate account embedding"

\* The action named by internal_error when the gateway call fails.
persist_action(op) ==
    CASE op = "create_transaction" -> "insert transaction"
      [] op = "search_similar_transactions" -> "search similar transactions"
      [] op = "upsert_category" -> "upsert category"
      [] op = "search_similar_categories" -> "search similar categories"
      [] op = "list_accounts" -> "list accounts"
      [] OTHER -> "upsert account"

\* The filters of an upsert's natural-key select.
natural_key(op, input) ==
    IF op = "upsert_category" THEN category_key(input) ELSE account_key(input)

-----------------------------------------------------------------------------
(* Startup: AppConfig (config.rs) and main (main.rs). *)

\* The value of an environment variable: not set, set to bytes that are
\* no Unicode text, or set to a text.
Unset == [t |-> "unset"]

NotUnicode == [t |-> "not unicode"]

Set(value) == [t |-> "set", v |-> value]

\* std::env::var
env_var(env, key) == IF env[key].t = "set" THEN Ok(env[key].v) ELSE Err(env[key].t)

\* Mutant of require: a variable that cannot be read is taken as empty.
require_OrEmpty(env, key) ==
    IF env_var(env, key).ok THEN env_var(env, key) ELSE Ok(<< >>)

\* config.rs: AppConfig::require
require(env, key) ==
    IF env_var(env, key).ok
    THEN env_var(env, key)
    ELSE Err("Missing required env var " \o key)

\* .ok().filter(|value| !value.is_empty())
non_empty(r) == IF r.ok /\ ~is_empty(r.value) THEN Some(r.value) ELSE None

\* tracing Level::from_str: a number from 1 to 5 or a level's name in
\* any case.
parse_level(s) ==
    CASE s = <<"1">> \/ to_lowercase(s) = <<"e", "r", "r", "o", "r">> -> Ok("ERROR")
      [] s = <<"2">> \/ to_lowercase(s) = <<"w", "a", "r", "n">> -> Ok("WARN")
      [] s = <<"3">> \/ to_lowercase(s) = <<"i", "n", "f", "o">> -> Ok("INFO")
      [] s = <<"4">> \/ to_lowercase(s) = <<"d", "e", "b", "u", "g">> -> Ok("DEBUG")
      [] s = <<"5">> \/ to_lowercase(s) = <<"t", "r", "a", "c", "e">> -> Ok("TRACE")
      [] OTHER -> Err("invalid level")

\* config.rs: the log level, "info" when LOG_LEVEL cannot be read and
\* INFO when it does not parse.
log_level(env) ==
    LET text == IF env_var(env, "LOG_LEVEL").ok
                THEN env_var(env, "LOG_LEVEL").value
                ELSE <<"i", "n", "f", "o">>
    IN  IF parse_level(text).ok THEN parse_level(text).value ELSE "INFO"

\* Stands for "text-embedding-3-large".
DefaultEmbeddingModel == <<"t", "e", "3">>

\* config.rs: AppConfig::from_env; the fields are evaluated in the order
\* of the struct literal and the first `?` that fails returns.
from_env(env) ==
    IF ~require(env, "SUPABASE_URL").ok THEN require(env, "SUPABASE_URL")
    ELSE IF ~require(env, "SUPABASE_SERVICE_KEY").ok THEN require(env, "SUPABASE_SERVICE_KEY")
    ELSE IF ~require(env, "OPENAI_API_KEY").ok THEN require(env, "OPENAI_API_KEY")
    ELSE Ok([supabase_url |-> require(env, "SUPABASE_URL").value,
             supabase_service_key |-> require(env, "SUPABASE_SERVICE_KEY").value,
             openai_api_key |-> require(env, "OPENAI_API_KEY").value,
             openai_base_url |-> non_empty(env_var(env, "OPENAI_BASE_URL")),
             embedding_model |->
                unwrap_or(non_empty(env_var(env, "EMBEDDING_MODEL")), DefaultEmbeddingModel),
             log_level |-> log_level(env)])

\* The environments of StartupSpec: each required variable unset, empty
\* or set (the service key also not Unicode), the optional ones unset,
\* empty or set, the log level unset, a level or no level, the TLS switch
\* unset, "True" or "1".
Envs ==
    [SUPABASE_URL : {Unset, Set(<< >>), Set(<<"u">>)},
     SUPABASE_SERVICE_KEY : {Unset, NotUnicode, Set(<< >>), Set(<<"k">>)},
     OPENAI_API_KEY : {Unset, Set(<< >>), Set(<<"o">>)},
     OPENAI_BASE_URL : {Unset, Set(<< >>), Set(<<"b">>)},
     EMBEDDING_MODEL : {Unset, Set(<< >>), Set(<<"m">>)},
     LOG_LEVEL : {Unset, Set(<<"D", "e", "b", "u", "g">>), Set(<<"x">>)},
     USE_NATIVE_TLS : {Unset, Set(<<"T", "r", "u", "e">>), Set(<<"1">>)}]

\* The .env file of the working directory: none, or the variables it
\* holds with their values.
NoFile == << >>

DotenvFiles ==
    {NoFile,
     [SUPABASE_URL |-> <<"u">>],
     [SUPABASE_URL |-> <<"u">>, SUPABASE_SERVICE_KEY |-> <<"k">>,
      OPENAI_API_KEY |-> <<"o">>, USE_NATIVE_TLS |-> <<"T", "r", "u", "e">>]}

\* The variables dotenvy::dotenv sets: those of the file that
\* std::env::var cannot read in the environment.
dotenv_loaded(env, file) == {key \in DOMAIN file \cap DOMAIN env : ~env_var(env, key).ok}

\* dotenvy::dotenv: the environment with the variables of the file that
\* it did not have; a variable that can be read keeps its value.
dotenv(env, file) ==
    [key \in DOMAIN env |->
        IF key \in dotenv_loaded(env, file) THEN Set(file[key]) ELSE env[key]]

\* main has just been entered in this environment.
Entered(env) ==
    [pc |-> "dotenv", env |-> env, loaded |-> {}, config |-> None, supabase |-> FALSE,
     embedder |-> FALSE, service_key |-> << >>, impl |-> "EmbeddingService",
     calls |-> << >>, exit |-> None]

\* main returned this error.
Exited(b, err) == [b EXCEPT !.pc = "exited", !.exit = Some(err)]

\* main.rs: dotenvy::dotenv().ok()
main_dotenv(b, file) ==
    [b EXCEPT !.pc = "config", !.env = dotenv(b.env, file),
              !.loaded = dotenv_loaded(b.env, file)]

\* main.rs: AppConfig::from_env()?
main_configured(b) ==
    IF from_env(b.env).ok
    THEN [b EXCEPT !.pc = "gateway", !.config = Some(from_env(b.env).value)]
    ELSE Exited(b, from_env(b.env).err)

\* supabase.rs: SupabaseGateway::new reads USE_NATIVE_TLS with
\* eq_ignore_ascii_case("true"), false when it cannot be read.
use_native_tls(env) ==
    /\ env_var(env, "USE_NATIVE_TLS").ok
    /\ to_lowercase(env_var(env, "USE_NATIVE_TLS").value) = <<"t", "r", "u", "e">>

\* supabase.rs: SupabaseGateway::new, given what SupabaseClient::new and
\* the HTTP client builder of the chosen TLS backend return.
SupabaseGateway_new(env, client, http) ==
    IF ~client.ok THEN Err("failed to initialize Supabase client: " \o client.err)
    ELSE IF ~http.ok
         THEN IF use_native_tls(env)
              THEN Err("failed to build HTTP client with native TLS")
              ELSE Err("failed to build HTTP client with rustls")
         ELSE Ok(TRUE)

\* main.rs: SupabaseGateway::new(&config)?; the gateway keeps the service
\* key of the configuration.
main_gateway(b, r) ==
    IF r.ok
    THEN [b EXCEPT !.pc = "embedder", !.supabase = TRUE,
                   !.service_key = unwrap(b.config).supabase_service_key]
    ELSE Exited(b, r.err)

\* main.rs: EmbeddingService::new(...)?, which returns Ok
main_embedder(b) == [b EXCEPT !.pc = "serve", !.embedder = TRUE]

\* main.rs: ExaspoonDbServer::new(supabase, embedder).serve(stdio()).await?
main_serve(b, r) == IF r.ok THEN [b EXCEPT !.pc = "serving"] ELSE Exited(b, r.err)

\* main.rs: service.waiting().await?, then Ok(()): main returns when the
\* peer has closed the connection or the service has failed.
main_waited(b, r) == IF r.ok THEN [b EXCEPT !.pc = "returned"] ELSE Exited(b, r.err)

\* A server constructed with ExaspoonDbServer::new on a gateway and an
\* embedder, and serving.
Constructed ==
    [pc |-> "serving", env |-> << >>, loaded |-> {}, config |-> None, supabase |-> TRUE,
     embedder |-> TRUE, service_key |-> <<"k">>, impl |-> "EmbeddingService",
     calls |-> << >>, exit |-> None]

-----------------------------------------------------------------------------
(* The state of one tool invocation. *)

\* One external call of an invocation: kind is embed, select, insert,
\* update or rpc; target the provider, a table or an RPC function.
Call(kind, target, arg, ok) == [kind |-> kind, target |-> target, arg |-> arg, ok |-> ok]

Idle ==
    [pc |-> "idle", call |-> 0, op |-> "none", input |-> << >>, text |-> << >>,
     embedding |-> None, payload |-> Null, id |-> << >>, rows |-> << >>,
     response |-> None, calls |-> << >>, result |-> None]

\* A slot can take a new invocation.
Free(p) == inv[p].pc \in {"idle", "done"}

\* No invocation is in flight.
Quiet == \A p \in Procs : Free(p)

\* The fresh state of the invocation that is started now.
Started(op, input) == [Idle EXCEPT !.call = started + 1, !.op = op, !.input = input]

\* The invocation ends with this result.
Finished(s, result) == [s EXCEPT !.pc = "done", !.result = Some(result)]

\* The invocation has issued this call.
Called(s, call) == [s EXCEPT !.calls = Append(@, call)]

\* Mutant of Failed: the first call of an invocation that fails is
\* attempted once more.
Failed_RetryOnce(s, err) ==
    IF Cardinality({i \in DOMAIN s.calls : ~s.calls[i].ok}) = 1
    THEN s
    ELSE Finished(s, internal_error(persist_action(s.op), err))

\* The gateway call failed: server.rs map_err(internal_error(...)).
Failed(s, err) == Finished(s, internal_error(persist_action(s.op), err))

-----------------------------------------------------------------------------
(* ExaspoonDbServer (server.rs): each handler up to its first await. *)

\* server.rs: create_transaction, maybe_embed(input.description). With
\* nothing to embed the handler goes on to insert_transaction at once.
create_transaction_begin(impl, s) ==
    IF is_some(dyn_maybe_embed(impl, s.input.description))
    THEN [s EXCEPT !.pc = "embed",
                   !.text = unwrap(dyn_maybe_embed(impl, s.input.description))]
    ELSE [s EXCEPT !.pc = "insert", !.payload = transaction_payload(s.input, None)]

\* Mutant of query_is_blank: the query is tested without being trimmed.
query_is_blank_Untrimmed(query) == is_empty(query)

\* server.rs: the validation of search_similar_transactions and
\* search_similar_categories
query_is_blank(query) == is_empty(trim(query))

\* server.rs: search_similar_transactions, search_similar_categories
search_begin(s) ==
    IF query_is_blank(s.input.query)
    THEN Finished(s, invalid_params("query must not be empty", "query"))
    ELSE [s EXCEPT !.pc = "embed", !.text = trim(s.input.query)]

\* Mutant of description_source: the name is embedded whether or not a
\* description is given.
description_source_NameOnly(input) == input.name

\* server.rs: upsert_category, description_source
description_source(input) == unwrap_or(input.description, input.name)

\* server.rs: upsert_category
upsert_category_begin(s) ==
    [s EXCEPT !.pc = "embed", !.text = description_source(s.input)]

\* Mutant of upsert_account_begin: the embedding call, whose result is
\* not used, is left out.
upsert_account_begin_NoEmbed(s) ==
    [s EXCEPT !.pc = "select", !.payload = account_payload(s.input)]

\* server.rs: upsert_account
upsert_account_begin(s) == [s EXCEPT !.pc = "embed", !.text = s.input.name]

\* Mutant of list_accounts_begin: the search term is embedded first.
list_accounts_begin_Embed(s) ==
    [s EXCEPT !.pc = "embed", !.text = unwrap_or(s.input.search, << >>)]

\* server.rs: list_accounts
list_accounts_begin(s) == [s EXCEPT !.pc = "list"]

(* Each handler after its embedding call returned r. *)

\* Mutant of embed_failed: the embedder's failure is reported as invalid
\* parameters.
embed_failed_InvalidParams(s, r) == Finished(s, invalid_params(r.err, "query"))

\* The embedding call failed: map_err(internal_error(...)) and `?`.
embed_failed(s, r) == Finished(s, internal_error(embed_action(s.op), r.err))

\* server.rs: create_transaction, on to supabase.insert_transaction
create_transaction_embedded(s, r) ==
    IF r.ok
    THEN [s EXCEPT !.pc = "insert", !.embedding = Some(r.value),
                   !.payload = transaction_payload(s.input, Some(r.value))]
    ELSE embed_failed(s, r)

\* http HeaderValue::from_str: of the characters of the model only the
\* line feed is not allowed in a header value.
valid_header_value(value) == \A i \in DOMAIN value : value[i] # "\n"

\* supabase.rs: rpc_headers. The apikey header is built first, from the
\* service key; the schema "public" is a valid value.
rpc_headers(service_key) ==
    IF valid_header_value(service_key)
    THEN Ok(TRUE)
    ELSE Err("invalid apikey header value")

\* server.rs: search_similar_*, on to the gateway's search. call_rpc
\* builds the headers before it sends anything: with a service key that
\* is no header value the search fails here, without a request.
search_embedded(service_key, s, r) ==
    IF ~r.ok THEN embed_failed(s, r)
    ELSE IF ~rpc_headers(service_key).ok
         THEN Failed([s EXCEPT !.embedding = Some(r.value)], rpc_headers(service_key).err)
         ELSE [s EXCEPT !.pc = "rpc", !.embedding = Some(r.value)]

\* Mutant of upsert_category_embedded: the vector is not handed to the
\* category upsert.
upsert_category_embedded_NoVector(s, r) ==
    IF r.ok
    THEN [s EXCEPT !.pc = "select", !.embedding = Some(r.value),
                   !.payload = category_payload(s.input, None)]
    ELSE embed_failed(s, r)

\* server.rs: upsert_category, on to supabase.upsert_category
upsert_category_embedded(s, r) ==
    IF r.ok
    THEN [s EXCEPT !.pc = "select", !.embedding = Some(r.value),
                   !.payload = category_payload(s.input, Some(r.value))]
    ELSE embed_failed(s, r)

\* Mutant of upsert_account_embedded: the result of the embedding call,
\* which is not used, is not checked either.
upsert_account_embedded_Unchecked(s, r) ==
    [s EXCEPT !.pc = "select", !.payload = account_payload(s.input)]

\* server.rs: upsert_account, on to supabase.upsert_account; the vector
\* is bound to _embedding and not passed on.
upsert_account_embedded(s, r) ==
    IF r.ok
    THEN [s EXCEPT !.pc = "select", !.embedding = Some(r.value),
                   !.payload = account_payload(s.input)]
    ELSE embed_failed(s, r)

embedded(service_key, s, r) ==
    CASE s.op = "create_transaction" -> create_transaction_embedded(s, r)
      [] s.op \in SearchOps -> search_embedded(service_key, s, r)
      [] s.op = "upsert_category" -> upsert_category_embedded(s, r)
      [] OTHER -> upsert_account_embedded(s, r)

-----------------------------------------------------------------------------
(* SupabaseGateway (supabase.rs): each method after a store call returned. *)

\* The error texts of the store client (supabase_rs), which the gateway
\* appends to its own: a text, or the empty text.
ClientErrors == {"timeout", ""}

\* supabase.rs: fetch_first, the query sent to the store: limit 1 and an
\* eq filter per column.
fetch_first_query(filters) == [eq |-> filters, limit |-> 1]

\* supabase.rs: fetch_first, what it can return: an error, or the first
\* of the rows the filters keep (limit 1: the store picks the row).
FetchFirstResults(table, filters) ==
    {Err("failed to query " \o table \o ": " \o err) : err \in ClientErrors}
        \cup (IF Select(table, filters) = {}
              THEN {Ok(None)}
              ELSE {Ok(Some(row)) : row \in Select(table, filters)})

\* Mutant of upsert_selected: the row the select found is ignored and the
\* upsert always inserts.
upsert_selected_AlwaysInsert(s, r) ==
    IF ~r.ok THEN Failed(s, r.err) ELSE [s EXCEPT !.pc = "insert"]

\* supabase.rs: upsert_category / upsert_account after the natural-key
\* select returned r
upsert_selected(s, r) ==
    IF ~r.ok THEN Failed(s, r.err)
    ELSE IF ~is_some(r.value) THEN [s EXCEPT !.pc = "insert"]
    ELSE IF extract_id(unwrap(r.value)).ok
         THEN [s EXCEPT !.pc = "update", !.id = extract_id(unwrap(r.value)).value]
         ELSE Failed(s, extract_id(unwrap(r.value)).err)

\* Mutant of upsert_updated: the payload is returned as the row, without
\* the select by id.
upsert_updated_NoRefetch(s) == Finished(s, success(result_key(s.op), s.payload))

\* supabase.rs: upsert_*, after client.update succeeded
upsert_updated(s) == [s EXCEPT !.pc = "refetch"]

\* Mutant of insert_and_fetch_inserted: the inserted payload is returned
\* as the row, without the re-fetch.
insert_and_fetch_inserted_ReturnPayload(s, id) ==
    Finished(s, success(result_key(s.op), s.payload))

\* supabase.rs: insert_and_fetch, after client.insert returned this id
insert_and_fetch_inserted(s, id) == [s EXCEPT !.pc = "refetch", !.id = normalize_id(id)]

\* fmt::Display of a String: its characters in one text.
RECURSIVE Display(_)
Display(chars) == IF chars = << >> THEN "" ELSE Head(chars) \o Display(Tail(chars))

\* supabase.rs: fetch_by_id after fetch_first returned r, and the
\* handler's wrapping of the row under the result key
fetch_by_id_fetched(s, r) ==
    IF ~r.ok THEN Failed(s, r.err)
    ELSE IF ~is_some(r.value)
         THEN Failed(s, table_of(s.op) \o " record " \o Display(s.id) \o " was not found")
    ELSE Finished(s, success(result_key(s.op), unwrap(r.value)))

\* The lists of at most match_count rows of the table that the RPC
\* function can answer with.
RowLists(table, match_count) ==
    {<< >>} \cup {<<r>> : r \in tables[table]}
        \cup {q \in tables[table] \X tables[table] : q[1] # q[2] /\ match_count >= 2}

\* The outcomes of a POST to the vector-search RPC: the menu's outcomes
\* without rows, and each of the menu's statuses with each list of rows
\* as the body.
RpcResponses(m, table, match_count) ==
    m.rpc \cup {Response(status, ArrayBody(rows)) :
                  status \in m.statuses, rows \in RowLists(table, match_count)}

\* http StatusCode::is_success
is_success(status) == 200 <= status.code /\ status.code < 300

\* http StatusCode, Display: the code and the canonical reason
status_text(status) == ToString(status.code) \o " " \o status.reason

\* Mutant of call_rpc: the body of any response that is an array is
\* returned, whatever the status.
call_rpc_AnyStatus(function, resp) ==
    CASE resp.transport = "request failed" -> Err("RPC " \o function \o " request failed")
      [] resp.body.t = "array" -> Ok(resp.body.v)
      [] is_success(resp.status) -> Err("failed to parse RPC response")
      [] OTHER -> Err("RPC " \o function \o " failed (" \o status_text(resp.status)
                          \o "): " \o body_text(resp.body))

\* supabase.rs: call_rpc once the headers are built, given what the POST
\* comes to
call_rpc(function, resp) ==
    CASE resp.transport = "request failed" -> Err("RPC " \o function \o " request failed")
      [] is_success(resp.status) ->
            IF resp.body.t = "array"
            THEN Ok(resp.body.v)
            ELSE Err("failed to parse RPC response")
      [] OTHER -> Err("RPC " \o function \o " failed (" \o status_text(resp.status)
                          \o "): " \o body_text(resp.body))

\* server.rs: search_similar_*, after the gateway's search returned r to
\* the outcome resp of the POST
search_returned(s, resp, r) ==
    IF r.ok
    THEN Finished([s EXCEPT !.response = Some(resp)], success(result_key(s.op), r.value))
    ELSE Failed([s EXCEPT !.response = Some(resp)], r.err)

\* The POST of a search to its RPC function, with how call_rpc ended.
rpc_call(s, ok) ==
    Call("rpc", rpc_function(s.op),
         [query_embedding |-> unwrap(s.embedding),
          match_count |-> resolve_limit(s.input.limit)],
         ok)

\* supabase.rs: call_rpc after send().await: without a response the call
\* has failed; with one, call_rpc goes on to read the body.
call_rpc_sent(s, resp) ==
    IF resp.transport = "request failed"
    THEN search_returned(Called(s, rpc_call(s, FALSE)), resp,
                         call_rpc(rpc_function(s.op), resp))
    ELSE [s EXCEPT !.pc = "body", !.response = Some(resp)]

\* supabase.rs: call_rpc after response.json().await or
\* response.text().await
call_rpc_read(s) ==
    search_returned(Called(s, rpc_call(s, call_rpc(rpc_function(s.op), unwrap(s.response)).ok)),
                    unwrap(s.response),
                    call_rpc(rpc_function(s.op), unwrap(s.response)))

-----------------------------------------------------------------------------
(* The steps of the system. *)

\* A task of the server takes a step; tasks run only while main waits on
\* the running service.
Put(p, s) ==
    /\ boot.pc = "serving"
    /\ inv' = [inv EXCEPT ![p] = s]

\* A tool invocation arrives and runs up to its first external call.
Begin(p, s) ==
    /\ boot.pc = "serving"
    /\ Free(p)
    /\ Put(p, s)
    /\ started' = started + 1
    /\ UNCHANGED <<boot, tables, nextId, embedLog, storeLog>>

create_transaction(p, m) ==
    \E input \in m.create_transaction :
        Begin(p, create_transaction_begin(boot.impl,
                                          Started("create_transaction", input)))

search_similar_transactions(p, m) ==
    \E input \in m.search_similar_transactions :
        Begin(p, search_begin(Started("search_similar_transactions", input)))

upsert_category(p, m) ==
    \E input \in m.upsert_category :
        Begin(p, upsert_category_begin(Started("upsert_category", input)))

search_similar_categories(p, m) ==
    \E input \in m.search_similar_categories :
        Begin(p, search_begin(Started("search_similar_categories", input)))

list_accounts(p, m) ==
    \E input \in m.list_accounts :
        Begin(p, list_accounts_begin(Started("list_accounts", input)))

upsert_account(p, m) ==
    \E input \in m.upsert_account :
        Begin(p, upsert_account_begin(Started("upsert_account", input)))

\* embedder.embed: one request to the provider, and its response.
EmbedCall(p, m) ==
    /\ inv[p].pc = "embed"
    /\ \E resp \in EmbedAnswers(boot.impl, m.provider) :
          /\ Put(p, embedded(boot.service_key,
                             Called(inv[p], Call("embed", "provider", inv[p].text,
                                                  dyn_embed(boot.impl, resp).ok)),
                             dyn_embed(boot.impl, resp)))
          /\ embedLog' = Append(embedLog, [call |-> inv[p].call, text |-> inv[p].text,
                                           response |-> resp])
    /\ boot' = [boot EXCEPT !.calls = dyn_record(boot.impl, @, inv[p].text)]
    /\ UNCHANGED <<tables, nextId, started, storeLog>>

\* upsert_*: fetch_first on the natural key.
SelectByKey(p) ==
    /\ inv[p].pc = "select"
    /\ \E r \in FetchFirstResults(table_of(inv[p].op), natural_key(inv[p].op, inv[p].input)) :
          Put(p, upsert_selected(
                    Called(inv[p], Call("select", table_of(inv[p].op),
                                        fetch_first_query(natural_key(inv[p].op, inv[p].input)),
                                        r.ok)),
                    r))
    /\ UNCHANGED <<boot, tables, nextId, started, embedLog, storeLog>>

\* upsert_*: client.update(table, id, payload) is applied by the store.
UpdateOk(p) ==
    /\ inv[p].pc = "update"
    /\ tables' = [tables EXCEPT ![table_of(inv[p].op)] =
                      UpdatedTable(@, inv[p].id, inv[p].payload)]
    /\ storeLog' = Append(storeLog,
                          [call |-> inv[p].call, op |-> inv[p].op, kind |-> "update",
                           table |-> table_of(inv[p].op), id |-> inv[p].id,
                           payload |-> inv[p].payload])
    /\ Put(p, upsert_updated(Called(inv[p], Call("update", table_of(inv[p].op),
                                                  inv[p].id, TRUE))))
    /\ UNCHANGED <<boot, nextId, started, embedLog>>

\* upsert_*: client.update fails.
UpdateErr(p) ==
    /\ inv[p].pc = "update"
    /\ \E err \in ClientErrors :
          Put(p, Failed(Called(inv[p], Call("update", table_of(inv[p].op), inv[p].id, FALSE)),
                        "failed to update " \o result_key(inv[p].op) \o ": " \o err))
    /\ UNCHANGED <<boot, tables, nextId, started, embedLog, storeLog>>

\* Mutant of InsertOk: an insert on a natural key that already has a row
\* is turned into a no-op that returns the existing row's id (an atomic
\* insert-on-conflict).
InsertOk_OnConflict(p) ==
    /\ inv[p].pc = "insert"
    /\ LET table == table_of(inv[p].op)
           taken == IF inv[p].op = "create_transaction"
                    THEN {}
                    ELSE Select(table, natural_key(inv[p].op, inv[p].input))
           s == Called(inv[p], Call("insert", table, inv[p].payload, TRUE))
       IN  IF taken = {}
           THEN /\ tables' = [tables EXCEPT ![table] =
                                 @ \cup {InsertedRow(inv[p].payload, GeneratedId(nextId + 1))}]
                /\ nextId' = nextId + 1
                /\ storeLog' = Append(storeLog,
                                      [call |-> inv[p].call, op |-> inv[p].op,
                                       kind |-> "insert", table |-> table,
                                       id |-> GeneratedId(nextId + 1),
                                       payload |-> inv[p].payload])
                /\ Put(p, insert_and_fetch_inserted(s, GeneratedId(nextId + 1)))
           ELSE /\ \E row \in taken : Put(p, insert_and_fetch_inserted(s, row.id.v))
                /\ UNCHANGED <<boot, tables, nextId, storeLog>>
    /\ UNCHANGED <<boot, started, embedLog>>

\* insert_and_fetch: client.insert(table, payload) is applied by the store,
\* which generates the row's id and returns it.
InsertOk(p) ==
    /\ inv[p].pc = "insert"
    /\ tables' = [tables EXCEPT ![table_of(inv[p].op)] =
                      @ \cup {InsertedRow(inv[p].payload, GeneratedId(nextId + 1))}]
    /\ nextId' = nextId + 1
    /\ storeLog' = Append(storeLog,
                          [call |-> inv[p].call, op |-> inv[p].op, kind |-> "insert",
                           table |-> table_of(inv[p].op), id |-> GeneratedId(nextId + 1),
                           payload |-> inv[p].payload])
    /\ \E id \in InsertResponses(GeneratedId(nextId + 1)) :
          Put(p, insert_and_fetch_inserted(
                    Called(inv[p], Call("insert", table_of(inv[p].op), inv[p].payload, TRUE)),
                    id))
    /\ UNCHANGED <<boot, started, embedLog>>

\* insert_and_fetch: client.insert fails.
InsertErr(p) ==
    /\ inv[p].pc = "insert"
    /\ \E err \in ClientErrors :
          Put(p, Failed(Called(inv[p], Call("insert", table_of(inv[p].op), inv[p].payload, FALSE)),
                        "failed to insert into " \o table_of(inv[p].op) \o ": " \o err))
    /\ UNCHANGED <<boot, tables, nextId, started, embedLog, storeLog>>

\* fetch_by_id: the re-fetch of the written row.
FetchById(p) ==
    /\ inv[p].pc = "refetch"
    /\ \E r \in FetchFirstResults(table_of(inv[p].op), id_key(inv[p].id)) :
          Put(p, fetch_by_id_fetched(
                    Called(inv[p], Call("select", table_of(inv[p].op),
                                        fetch_first_query(id_key(inv[p].id)), r.ok)),
                    r))
    /\ UNCHANGED <<boot, tables, nextId, started, embedLog, storeLog>>

\* search_similar_*: call_rpc with match_count = resolve_limit(limit),
\* the POST is sent and send().await returns.
CallRpc(p, m) ==
    /\ inv[p].pc = "rpc"
    /\ \E resp \in RpcResponses(m, table_of(inv[p].op), resolve_limit(inv[p].input.limit)) :
          Put(p, call_rpc_sent(inv[p], resp))
    /\ UNCHANGED <<boot, tables, nextId, started, embedLog, storeLog>>

\* call_rpc: the body of the response is read and the search returns.
ReadRpcBody(p) ==
    /\ inv[p].pc = "body"
    /\ Put(p, call_rpc_read(inv[p]))
    /\ UNCHANGED <<boot, tables, nextId, started, embedLog, storeLog>>

\* supabase.rs: list_accounts, the query sent to the store: ordered by
\* name ascending, with the optional eq filter on type.
list_query(input) == [order |-> <<"name", TRUE>>, eq |-> type_filter(input.type)]

\* supabase.rs: list_accounts after the store returned these rows, and the
\* handler's wrapping of the rows under the result key
list_accounts_listed(s, rows) ==
    Finished([s EXCEPT !.rows = rows],
             success(result_key(s.op), filter_accounts(rows, s.input.search)))

\* list_accounts: the select succeeds; the gateway filters by name.
ListOk(p) ==
    /\ inv[p].pc = "list"
    /\ \E rows \in OrderedByName(Select("accounts", list_query(inv[p].input).eq)) :
          Put(p, list_accounts_listed(
                    Called(inv[p], Call("select", "accounts", list_query(inv[p].input), TRUE)),
                    rows))
    /\ UNCHANGED <<boot, tables, nextId, started, embedLog, storeLog>>

\* list_accounts: the select fails.
ListErr(p) ==
    /\ inv[p].pc = "list"
    /\ \E err \in ClientErrors :
          Put(p, Failed(Called(inv[p], Call("select", "accounts", list_query(inv[p].input), FALSE)),
                        "failed to list accounts: " \o err))
    /\ UNCHANGED <<boot, tables, nextId, started, embedLog, storeLog>>

\* main: the .env file of the working directory, if there is one, is
\* loaded into the environment of the process.
LoadDotenv ==
    /\ boot.pc = "dotenv"
    /\ \E file \in DotenvFiles : boot' = main_dotenv(boot, file)
    /\ UNCHANGED <<tables, nextId, inv, started, embedLog, storeLog>>

\* main: the configuration is loaded from the environment.
LoadConfig ==
    /\ boot.pc = "config"
    /\ boot' = main_configured(boot)
    /\ UNCHANGED <<tables, nextId, inv, started, embedLog, storeLog>>

\* main: the row-store gateway is constructed; the client or the HTTP
\* client can fail to build.
NewGateway ==
    /\ boot.pc = "gateway"
    /\ \E client \in {Ok(TRUE), Err("invalid url")},
          http \in {Ok(TRUE), Err("builder error")} :
          boot' = main_gateway(boot, SupabaseGateway_new(boot.env, client, http))
    /\ UNCHANGED <<tables, nextId, inv, started, embedLog, storeLog>>

\* main: the embedding service is constructed.
NewEmbedder ==
    /\ boot.pc = "embedder"
    /\ boot' = main_embedder(boot)
    /\ UNCHANGED <<tables, nextId, inv, started, embedLog, storeLog>>

\* main: the server starts to serve on stdio, or the handshake fails.
Serve ==
    /\ boot.pc = "serve"
    /\ \E r \in {Ok(TRUE), Err("initialize failed")} : boot' = main_serve(boot, r)
    /\ UNCHANGED <<tables, nextId, inv, started, embedLog, storeLog>>

\* main: waiting() returns, the peer having closed the connection or the
\* service having failed, and main returns: the process ends with the
\* invocations still in flight.
Waiting ==
    /\ boot.pc = "serving"
    /\ \E r \in {Ok(TRUE), Err("connection closed")} : boot' = main_waited(boot, r)
    /\ UNCHANGED <<tables, nextId, inv, started, embedLog, storeLog>>

\* tests/common/mod.rs: MockEmbedder::clear_calls
clear_calls ==
    /\ boot.impl = "MockEmbedder"
    /\ boot' = [boot EXCEPT !.calls = << >>]
    /\ UNCHANGED <<tables, nextId, inv, started, embedLog, storeLog>>

\* The writes of an earlier session of the gateway: one category and one
\* account, each created by an upsert.
EarlierWrites ==
    <<[call |-> 0, op |-> "upsert_category", kind |-> "insert",
       table |-> "categories", id |-> GeneratedId(1),
       payload |-> category_payload(
                      [name |-> Food, kind |-> None, description |-> Some(Meals)],
                      Some(V2))],
      [call |-> 0, op |-> "upsert_account", kind |-> "insert",
       table |-> "accounts", id |-> GeneratedId(2),
       payload |-> account_payload(
                      [name |-> Checking, type |-> "offchain", currency |-> USD,
                       network |-> None, institution |-> None])]>>

\* The writes that left the accounts of ListSpec: two accounts of one
\* name and different types and a third account, created by upserts, and
\* two rows written by another client of the store, one with a null name
\* and one with no name column.
ListedWrites ==
    <<[call |-> 0, op |-> "upsert_account", kind |-> "insert",
       table |-> "accounts", id |-> GeneratedId(1),
       payload |-> account_payload(
                      [name |-> Checking, type |-> "offchain", currency |-> USD,
                       network |-> None, institution |-> None])],
      [call |-> 0, op |-> "none", kind |-> "insert",
       table |-> "accounts", id |-> GeneratedId(2),
       payload |-> [name |-> Null, type |-> Str("offchain"), currency |-> Str(USD)]],
      [call |-> 0, op |-> "upsert_account", kind |-> "insert",
       table |-> "accounts", id |-> GeneratedId(3),
       payload |-> account_payload(
                      [name |-> Other, type |-> "onchain", currency |-> USD,
                       network |-> None, institution |-> None])],
      [call |-> 0, op |-> "none", kind |-> "insert",
       table |-> "accounts", id |-> GeneratedId(4),
       payload |-> [type |-> Str("onchain"), currency |-> Str(USD)]],
      [call |-> 0, op |-> "upsert_account", kind |-> "insert",
       table |-> "accounts", id |-> GeneratedId(5),
       payload |-> account_payload(
                      [name |-> Checking, type |-> "onchain", currency |-> USD,
                       network |-> None, institution |-> None])]>>

\* The writes that left two categories of one name: the inserts of two
\* upserts that raced in an earlier session.
DuplicateWrites ==
    <<[call |-> 0, op |-> "upsert_category", kind |-> "insert",
       table |-> "categories", id |-> GeneratedId(1),
       payload |-> category_payload(
                      [name |-> Food, kind |-> None, description |-> Some(Meals)],
                      Some(V2))],
      [call |-> 0, op |-> "upsert_category", kind |-> "insert",
       table |-> "categories", id |-> GeneratedId(2),
       payload |-> category_payload(
                      [name |-> Food, kind |-> None, description |-> None],
                      Some(V2))]>>

\* The writes that left the category and the account of OverwriteSpec,
\* each with every optional column filled in.
OverwriteWrites ==
    <<[call |-> 0, op |-> "upsert_category", kind |-> "insert",
       table |-> "categories", id |-> GeneratedId(1),
       payload |-> category_payload(
                      [name |-> Food, kind |-> Some("income"),
                       description |-> Some(Meals)],
                      Some(V2))],
      [call |-> 0, op |-> "upsert_account", kind |-> "insert",
       table |-> "accounts", id |-> GeneratedId(2),
       payload |-> account_payload(
                      [name |-> Checking, type |-> "offchain", currency |-> USD,
                       network |-> Some(<<"e", "t", "h">>),
                       institution |-> Some(<<"B", "k">>)])]>>

\* The store when the gateway is constructed: the rows that a history of
\* writes has left.
StoreAfter(writes) ==
    [t \in TableNames |->
        {InsertedRow(writes[i].payload, writes[i].id) :
            i \in {j \in DOMAIN writes : writes[j].table = t}}]

\* The gateway has just been constructed on a store with this history.
InitOn(writes) ==
    /\ tables = StoreAfter(writes)
    /\ nextId = Len(writes)
    /\ storeLog = writes
    /\ inv = [p \in Procs |-> Idle]
    /\ started = 0
    /\ embedLog = << >>
    /\ boot = Constructed

\* The store holds the rows of an earlier session.
Init == InitOn(EarlierWrites)

\* The store is empty.
FreshInit == InitOn(<< >>)

\* Spec: invocations of all six operations run as concurrent tasks.
Next ==
    \E p \in Procs :
        \/ started < MaxInvocations /\ create_transaction(p, Menu)
        \/ started < MaxInvocations /\ search_similar_transactions(p, Menu)
        \/ started < MaxInvocations /\ upsert_category(p, Menu)
        \/ started < MaxInvocations /\ search_similar_categories(p, Menu)
        \/ started < MaxInvocations /\ list_accounts(p, Menu)
        \/ started < MaxInvocations /\ upsert_account(p, Menu)
        \/ EmbedCall(p, Menu)
        \/ SelectByKey(p)
        \/ UpdateOk(p)
        \/ UpdateErr(p)
        \/ InsertOk(p)
        \/ InsertErr(p)
        \/ FetchById(p)
        \/ CallRpc(p, Menu)
        \/ ReadRpcBody(p)
        \/ ListOk(p)
        \/ ListErr(p)

Spec == Init /\ [][Next]_vars

\* The external call the invocation in slot p waits for is made and
\* returns.
Returns(p) ==
    \/ EmbedCall(p, Menu)
    \/ SelectByKey(p)
    \/ UpdateOk(p)
    \/ UpdateErr(p)
    \/ InsertOk(p)
    \/ InsertErr(p)
    \/ FetchById(p)
    \/ CallRpc(p, Menu)
    \/ ReadRpcBody(p)
    \/ ListOk(p)
    \/ ListErr(p)

\* FairSpec: invocations of all six operations run one after the other,
\* and every external call returns: the future the handler awaits is
\* resolved.
FairNext ==
    \/ started < MaxFairInvocations /\ Quiet /\ create_transaction(Main, Menu)
    \/ started < MaxFairInvocations /\ Quiet /\ search_similar_transactions(Main, Menu)
    \/ started < MaxFairInvocations /\ Quiet /\ upsert_category(Main, Menu)
    \/ started < MaxFairInvocations /\ Quiet /\ search_similar_categories(Main, Menu)
    \/ started < MaxFairInvocations /\ Quiet /\ list_accounts(Main, Menu)
    \/ started < MaxFairInvocations /\ Quiet /\ upsert_account(Main, Menu)
    \/ Returns(Main)

FairSpec == Init /\ [][FairNext]_vars /\ WF_vars(Returns(Main))

\* RaceSpec: upserts on one natural key run as concurrent tasks.
RaceNext ==
    \E p \in Procs :
        \/ started < MaxRaceInvocations /\ upsert_category(p, RaceMenu)
        \/ started < MaxRaceInvocations /\ upsert_account(p, RaceMenu)
        \/ EmbedCall(p, RaceMenu)
        \/ SelectByKey(p)
        \/ UpdateOk(p)
        \/ UpdateErr(p)
        \/ InsertOk(p)
        \/ InsertErr(p)
        \/ FetchById(p)

RaceSpec == Init /\ [][RaceNext]_vars

\* SeqSpec: category upserts run one after the other, each to completion,
\* on a store that was empty.
SeqNext ==
    \/ started < MaxSeqInvocations /\ Quiet /\ upsert_category(Main, SeqMenu)
    \/ EmbedCall(Main, SeqMenu)
    \/ SelectByKey(Main)
    \/ UpdateOk(Main)
    \/ UpdateErr(Main)
    \/ InsertOk(Main)
    \/ InsertErr(Main)
    \/ FetchById(Main)

SeqSpec == FreshInit /\ [][SeqNext]_vars

\* AccountSpec: account upserts run one after the other, each to
\* completion, on a store that was empty.
AccountNext ==
    \/ started < MaxSeqInvocations /\ Quiet /\ upsert_account(Main, AccountMenu)
    \/ EmbedCall(Main, AccountMenu)
    \/ SelectByKey(Main)
    \/ UpdateOk(Main)
    \/ UpdateErr(Main)
    \/ InsertOk(Main)
    \/ InsertErr(Main)
    \/ FetchById(Main)

AccountSpec == FreshInit /\ [][AccountNext]_vars

\* InputSpec: create_transaction and the searches over many texts.
InputNext ==
    \/ started < MaxInputInvocations /\ Quiet /\ create_transaction(Main, InputMenu)
    \/ started < MaxInputInvocations /\ Quiet /\ search_similar_transactions(Main, InputMenu)
    \/ started < MaxInputInvocations /\ Quiet /\ search_similar_categories(Main, InputMenu)
    \/ EmbedCall(Main, InputMenu)
    \/ InsertOk(Main)
    \/ InsertErr(Main)
    \/ FetchById(Main)
    \/ CallRpc(Main, InputMenu)
    \/ ReadRpcBody(Main)

InputSpec == FreshInit /\ [][InputNext]_vars

\* LimitSpec: transaction searches over many limits.
LimitNext ==
    \/ started < MaxLimitInvocations /\ Quiet
          /\ search_similar_transactions(Main, LimitMenu)
    \/ EmbedCall(Main, LimitMenu)
    \/ CallRpc(Main, LimitMenu)
    \/ ReadRpcBody(Main)

LimitSpec == FreshInit /\ [][LimitNext]_vars

\* ListSpec: list_accounts over many filters, on a store with accounts.
ListNext ==
    \/ started < MaxListInvocations /\ Quiet /\ list_accounts(Main, ListMenu)
    \/ ListOk(Main)
    \/ ListErr(Main)

ListSpec == InitOn(ListedWrites) /\ [][ListNext]_vars

\* The next operation of the workflow can start: nothing has run yet, or
\* the operation before it has returned a success (the caller unwraps
\* each result).
Proceeds == started = 0 \/ (inv[Main].pc = "done" /\ unwrap(inv[Main].result).ok)

\* The gateway has just been constructed, on an empty store or on the
\* store of an earlier session, which has the account and the category.
WorkflowInit == FreshInit \/ Init

\* WorkflowSpec: on a fresh gateway, upsert_account, upsert_category,
\* create_transaction and search_similar_transactions run in this order,
\* each after the one before it succeeded.
WorkflowNext ==
    \/ started = 0 /\ Proceeds /\ upsert_account(Main, WorkflowMenu)
    \/ started = 1 /\ Proceeds /\ upsert_category(Main, WorkflowMenu)
    \/ started = 2 /\ Proceeds /\ create_transaction(Main, WorkflowMenu)
    \/ started = 3 /\ Proceeds /\ search_similar_transactions(Main, WorkflowMenu)
    \/ EmbedCall(Main, WorkflowMenu)
    \/ SelectByKey(Main)
    \/ UpdateOk(Main)
    \/ UpdateErr(Main)
    \/ InsertOk(Main)
    \/ InsertErr(Main)
    \/ FetchById(Main)
    \/ CallRpc(Main, WorkflowMenu)
    \/ ReadRpcBody(Main)

WorkflowSpec == WorkflowInit /\ [][WorkflowNext]_vars

\* RpcSpec: searches over the outcomes of the RPC, on the store of an
\* earlier session.
RpcNext ==
    \/ started < MaxRpcInvocations /\ Quiet /\ search_similar_transactions(Main, RpcMenu)
    \/ started < MaxRpcInvocations /\ Quiet /\ search_similar_categories(Main, RpcMenu)
    \/ EmbedCall(Main, RpcMenu)
    \/ CallRpc(Main, RpcMenu)
    \/ ReadRpcBody(Main)

\* The gateway of RpcSpec holds a service key that is a header value, or
\* one with a line feed, on the store of an earlier session.
RpcInit ==
    /\ tables = StoreAfter(EarlierWrites)
    /\ nextId = Len(EarlierWrites)
    /\ storeLog = EarlierWrites
    /\ inv = [p \in Procs |-> Idle]
    /\ started = 0
    /\ embedLog = << >>
    /\ \E key \in {<<"k">>, <<"k", "\n">>} : boot = [Constructed EXCEPT !.service_key = key]

RpcSpec == RpcInit /\ [][RpcNext]_vars

\* The process has just been started in one of the environments, on the
\* store of an earlier session.
StartupInit ==
    /\ tables = StoreAfter(EarlierWrites)
    /\ nextId = Len(EarlierWrites)
    /\ storeLog = EarlierWrites
    /\ inv = [p \in Procs |-> Idle]
    /\ started = 0
    /\ embedLog = << >>
    /\ \E env \in Envs : boot = Entered(env)

\* StartupSpec: main runs from the environment to serving, and the server
\* then takes list_accounts invocations.
StartupNext ==
    \/ LoadDotenv
    \/ LoadConfig
    \/ NewGateway
    \/ NewEmbedder
    \/ Serve
    \/ Waiting
    \/ started < MaxStartupInvocations /\ Quiet /\ list_accounts(Main, Menu)
    \/ ListOk(Main)
    \/ ListErr(Main)

StartupSpec == StartupInit /\ [][StartupNext]_vars

\* The rows another client of the store wrote: a category with no id
\* column and an account whose id is a number.
ForeignRows ==
    [transactions |-> {},
     categories |->
        {[name |-> Str(Food), kind |-> Str("income"), description |-> Null]},
     accounts |->
        {[id |-> Num(7), name |-> Str(Checking), type |-> Str("offchain"),
          currency |-> Str(USD)]}]

\* The gateway has just been constructed on a store with rows that the
\* gateway did not write.
ForeignInit ==
    /\ tables = ForeignRows
    /\ nextId = 0
    /\ storeLog = << >>
    /\ inv = [p \in Procs |-> Idle]
    /\ started = 0
    /\ embedLog = << >>
    /\ boot = Constructed

\* ForeignSpec: upserts run one after the other on that store.
ForeignNext ==
    \/ started < MaxForeignInvocations /\ Quiet /\ upsert_category(Main, ForeignMenu)
    \/ started < MaxForeignInvocations /\ Quiet /\ upsert_account(Main, ForeignMenu)
    \/ EmbedCall(Main, ForeignMenu)
    \/ SelectByKey(Main)
    \/ UpdateOk(Main)
    \/ UpdateErr(Main)
    \/ InsertOk(Main)
    \/ InsertErr(Main)
    \/ FetchById(Main)

ForeignSpec == ForeignInit /\ [][ForeignNext]_vars

\* DuplicateSpec: the writing operations run as concurrent tasks on a
\* store that has two categories of one name.
DuplicateNext ==
    \E p \in Procs :
        \/ started < MaxDuplicateInvocations /\ create_transaction(p, DuplicateMenu)
        \/ started < MaxDuplicateInvocations /\ upsert_category(p, DuplicateMenu)
        \/ started < MaxDuplicateInvocations /\ upsert_account(p, DuplicateMenu)
        \/ EmbedCall(p, DuplicateMenu)
        \/ SelectByKey(p)
        \/ UpdateOk(p)
        \/ UpdateErr(p)
        \/ InsertOk(p)
        \/ InsertErr(p)
        \/ FetchById(p)

DuplicateSpec == InitOn(DuplicateWrites) /\ [][DuplicateNext]_vars

\* OverwriteSpec: upserts run one after the other on a store that has
\* the category and the account.
OverwriteNext ==
    \/ started < MaxOverwriteInvocations /\ Quiet /\ upsert_category(Main, OverwriteMenu)
    \/ started < MaxOverwriteInvocations /\ Quiet /\ upsert_account(Main, OverwriteMenu)
    \/ EmbedCall(Main, OverwriteMenu)
    \/ SelectByKey(Main)
    \/ UpdateOk(Main)
    \/ UpdateErr(Main)
    \/ InsertOk(Main)
    \/ InsertErr(Main)
    \/ FetchById(Main)

OverwriteSpec == InitOn(OverwriteWrites) /\ [][OverwriteNext]_vars

\* The second task slot.
Second == "t2"

\* The slot has not been used.
Unused(p) == inv[p].pc = "idle"

\* DisjointSpec: two upserts on different natural keys run as concurrent
\* tasks, one in each slot, on the store of an earlier session.
DisjointNext ==
    \/ Unused(Main) /\ upsert_category(Main, LeftMenu)
    \/ Unused(Main) /\ upsert_account(Main, LeftMenu)
    \/ Unused(Second) /\ upsert_category(Second, RightMenu)
    \/ Unused(Second) /\ upsert_account(Second, RightMenu)
    \/ EmbedCall(Main, LeftMenu)
    \/ EmbedCall(Second, RightMenu)
    \/ \E p \in Procs :
          \/ SelectByKey(p)
          \/ UpdateOk(p)
          \/ UpdateErr(p)
          \/ InsertOk(p)
          \/ InsertErr(p)
          \/ FetchById(p)

DisjointSpec == Init /\ [][DisjointNext]_vars

\* The requests of DoubleSpec: create_transaction with an absent, an
\* empty, a blank, a plain and a padded description.
DoubleMenu ==
    [create_transaction |->
        {CreateTransactionInput(d) :
            d \in {None, Some(<< >>), Some(Blank), Some(Coffee), Some(PaddedCoffee)}},
     provider |-> ProviderResponses]

\* ExaspoonDbServer::new(db, embedder) on an empty store, with any of the
\* three Embedder implementations.
DoubleInit ==
    /\ tables = StoreAfter(<< >>)
    /\ nextId = 0
    /\ storeLog = << >>
    /\ inv = [p \in Procs |-> Idle]
    /\ started = 0
    /\ embedLog = << >>
    /\ \E impl \in Embedders : boot = [Constructed EXCEPT !.impl = impl]

\* DoubleSpec: create_transaction, one invocation after the other, on a
\* server built with the production embedder or with a test double.
DoubleNext ==
    \/ started < MaxDoubleInvocations /\ Quiet /\ create_transaction(Main, DoubleMenu)
    \/ EmbedCall(Main, DoubleMenu)
    \/ InsertOk(Main)
    \/ InsertErr(Main)
    \/ FetchById(Main)
    \/ clear_calls

DoubleSpec == DoubleInit /\ [][DoubleNext]_vars

-----------------------------------------------------------------------------
(* Vocabulary of the properties. *)

\* The invocation in slot p has ended with a result envelope.
Succeeded(p) == inv[p].pc = "done" /\ unwrap(inv[p].result).ok

\* The invocation in slot p has ended with an error.
Errored(p) == inv[p].pc = "done" /\ ~unwrap(inv[p].result).ok

\* The kinds of the external calls the invocation in slot p has issued.
Kinds(p) == [i \in DOMAIN inv[p].calls |-> inv[p].calls[i].kind]

\* The invocation in slot p has issued a call of this kind that succeeded.
Did(p, kind) ==
    \E i \in DOMAIN inv[p].calls : inv[p].calls[i].kind = kind /\ inv[p].calls[i].ok

\* The committed writes of the invocation numbered c.
WritesOf(c) == {i \in DOMAIN storeLog : storeLog[i].call = c}

\* The committed writes whose payload has the given eq-filtered columns.
WritesOn(table, filters) ==
    SelectSeq(storeLog,
              LAMBDA w : w.table = table /\ Matches(w.payload, filters))

\* The committed writes to the row with the given id.
WritesTo(table, id) ==
    SelectSeq(storeLog, LAMBDA w : w.table = table /\ w.id = id)

\* The row is the payload as stored under the id.
Carries(row, payload) == \A c \in DOMAIN payload : c \in DOMAIN row /\ row[c] = payload[c]

CategoryNames == {Food, Rent}

-----------------------------------------------------------------------------
(* C1: upserts of one category name, one after the other. *)

\* C1: when upsert_category calls run one after the other on a store that
\* had no category of that name, the name has at most one row; the row
\* exists as soon as a write on the name was committed; it keeps the id of
\* the first write, which is the only insert; it carries the description of
\* the last write; and an upsert_category that succeeded is the last writer
\* of its name and returns that row.
C1_SequentialUpsertIdempotence ==
    /\ \A n \in CategoryNames :
          LET rows == Select("categories", << <<"name", n>> >>)
              writes == WritesOn("categories", << <<"name", n>> >>)
          IN  /\ Cardinality(rows) <= 1
              /\ (rows = {}) <=> (writes = << >>)
              /\ \A row \in rows :
                    /\ writes[1].kind = "insert"
                    /\ row.id = Str(writes[1].id)
                    /\ \A i \in 2..Len(writes) :
                          writes[i].kind = "update" /\ writes[i].id = writes[1].id
                    /\ row.description = writes[Len(writes)].payload.description
    /\ \A p \in Procs :
          Succeeded(p) /\ inv[p].op = "upsert_category" =>
              LET writes == WritesOn("categories", category_key(inv[p].input))
              IN  /\ writes # << >>
                  /\ writes[Len(writes)].call = inv[p].call
                  /\ unwrap(inv[p].result).value \in tables["categories"]
                  /\ unwrap(inv[p].result).value.description =
                        Str(unwrap_or(inv[p].input.description, inv[p].input.name))

\* Two upsert_category calls on Food succeeded, the second with another
\* description: one row, the first call's id, the second call's description.
C1_Witness ==
    /\ Succeeded(Main) /\ inv[Main].op = "upsert_category"
    /\ inv[Main].input.name = Food /\ inv[Main].input.description = Some(Meals)
    /\ Len(WritesOn("categories", category_key(inv[Main].input))) >= 2
    /\ WritesOn("categories", category_key(inv[Main].input))[1].payload.description = Str(Coffee)
    /\ WritesOn("categories", category_key(inv[Main].input))[1].call # inv[Main].call
    /\ Select("categories", category_key(inv[Main].input)) =
          {InsertedRow(inv[Main].payload,
                       WritesOn("categories", category_key(inv[Main].input))[1].id)}

-----------------------------------------------------------------------------
(* C2, C3: concurrent upserts on one natural key. *)

UpsertOps == {"upsert_category", "upsert_account"}

\* The invocations in slots p and q are upserts on the same natural key.
SameKey(p, q) ==
    /\ inv[p].op \in UpsertOps
    /\ inv[p].op = inv[q].op
    /\ natural_key(inv[p].op, inv[p].input) = natural_key(inv[q].op, inv[q].input)

\* The rows that have the natural key of the upsert in slot p.
KeyRows(p) == Select(table_of(inv[p].op), natural_key(inv[p].op, inv[p].input))

\* C2: two upserts on one natural key that have both observed "not found"
\* can both go on to insert (neither insert is held back), and when both
\* have inserted, the table holds two rows with that natural key, one
\* written by each.
C2_DuplicateInsertRace ==
    \A p, q \in Procs :
        p # q /\ SameKey(p, q) =>
            /\ inv[p].pc = "insert" /\ inv[q].pc = "insert" =>
                  ENABLED InsertOk(p) /\ ENABLED InsertOk(q)
            /\ Did(p, "insert") /\ Did(q, "insert") =>
                  /\ Cardinality(KeyRows(p)) >= 2
                  /\ \E i \in WritesOf(inv[p].call), j \in WritesOf(inv[q].call) :
                        /\ storeLog[i].id # storeLog[j].id
                        /\ \E r1, r2 \in KeyRows(p) :
                              r1.id = Str(storeLog[i].id) /\ r2.id = Str(storeLog[j].id)

\* Both upsert_category calls on Rent selected before either inserted,
\* both inserted and both succeeded: two rows named Rent.
C2_Witness ==
    /\ \A p \in Procs :
          /\ Succeeded(p) /\ inv[p].op = "upsert_category"
          /\ Kinds(p) = <<"embed", "select", "insert", "select">>
    /\ Cardinality(Select("categories", << <<"name", Rent>> >>)) = 2

\* Both upsert_account calls on Other/onchain selected before either
\* inserted, both inserted and both succeeded: two accounts named Other
\* of type onchain.
C2_AccountWitness ==
    /\ \A p \in Procs :
          /\ Succeeded(p) /\ inv[p].op = "upsert_account"
          /\ inv[p].input.name = Other /\ inv[p].input.type = "onchain"
          /\ Kinds(p) = <<"embed", "select", "insert", "select">>
    /\ Cardinality(Select("accounts", account_key(inv[Main].input))) = 2

\* C3: (a) a stored category or account row carries the payload of the
\* last write the store applied to its id; (b) two concurrent upserts on a
\* natural key that has exactly one row take the update path on that row's
\* id; (c) the row an upsert receives from its re-fetch on the update path
\* is the row it updated, carrying the payload of its own update or of a
\* write the store applied to that id after it.
C3_OverwriteRace ==
    /\ \A t \in {"categories", "accounts"} :
          \A row \in tables[t] :
              /\ WritesTo(t, row.id.v) # << >>
              /\ Carries(row, WritesTo(t, row.id.v)[Len(WritesTo(t, row.id.v))].payload)
    /\ \A p, q \in Procs :
          /\ p # q /\ SameKey(p, q) /\ Cardinality(KeyRows(p)) = 1
          /\ inv[p].pc \in {"update", "refetch"} /\ inv[q].pc \in {"update", "refetch"}
          => /\ inv[p].id = inv[q].id
             /\ KeyRows(p) = Select(table_of(inv[p].op), id_key(inv[p].id))
    /\ \A p \in Procs :
          Succeeded(p) /\ inv[p].op \in UpsertOps /\ Did(p, "update") =>
              /\ unwrap(inv[p].result).value.id = Str(inv[p].id)
              /\ \E i \in WritesOf(inv[p].call), j \in DOMAIN storeLog :
                    /\ i <= j
                    /\ storeLog[j].table = table_of(inv[p].op)
                    /\ storeLog[j].id = inv[p].id
                    /\ Carries(unwrap(inv[p].result).value, storeLog[j].payload)

\* Two upsert_account calls updated the same row concurrently, and one of
\* them received the row with the other's payload.
C3_Witness ==
    \E p, q \in Procs :
        /\ p # q /\ SameKey(p, q) /\ inv[p].op = "upsert_account"
        /\ Succeeded(p) /\ Succeeded(q)
        /\ Did(p, "update") /\ Did(q, "update")
        /\ inv[p].id = inv[q].id
        /\ inv[p].payload # inv[q].payload
        /\ Carries(unwrap(inv[p].result).value, inv[q].payload)
        /\ Carries(unwrap(inv[q].result).value, inv[q].payload)

-----------------------------------------------------------------------------
(* C4, C5: when the handlers embed. *)

\* The embedding requests of the invocation numbered c.
EmbedsOf(c) == SelectSeq(embedLog, LAMBDA e : e.call = c)

\* An optional text is present and non-blank after trimming.
NonBlank(text) == is_some(text) /\ ~is_empty(trim(unwrap(text)))

\* The create_transaction in slot p embeds as the policy says, the text
\* of its embedding request being `text`: with a non-blank description
\* one request is pending or has been issued, with that text, and a row
\* it inserted carries the vector the request returned; with an absent
\* or blank description no request is issued and an inserted row carries
\* a null embedding.
EmbedsPerPolicy(p, text) ==
    IF NonBlank(inv[p].input.description)
    THEN /\ IF inv[p].pc = "embed"
            THEN EmbedsOf(inv[p].call) = << >> /\ inv[p].text = text
            ELSE Len(EmbedsOf(inv[p].call)) = 1 /\ EmbedsOf(inv[p].call)[1].text = text
         /\ \A i \in WritesOf(inv[p].call) :
               /\ embed(EmbedsOf(inv[p].call)[1].response).ok
               /\ storeLog[i].payload.embedding =
                     Vec(embed(EmbedsOf(inv[p].call)[1].response).value)
               /\ InsertedRow(storeLog[i].payload, storeLog[i].id) \in tables["transactions"]
    ELSE /\ inv[p].pc # "embed"
         /\ EmbedsOf(inv[p].call) = << >>
         /\ \A i \in WritesOf(inv[p].call) :
               /\ storeLog[i].payload.embedding = Null
               /\ InsertedRow(storeLog[i].payload, storeLog[i].id) \in tables["transactions"]

\* C4: create_transaction with a non-blank description issues exactly one
\* embedding call, whose text is the trimmed description, and persists the
\* returned vector; with an absent or blank description it issues no
\* embedding call and persists a null embedding.
C4_EmbeddingPolicy ==
    \A p \in Procs :
        inv[p].op = "create_transaction" =>
            EmbedsPerPolicy(p, trim(unwrap(inv[p].input.description)))

\* What the code does instead: the text of the request is the description
\* as given, with its leading and trailing whitespace.
C4_EmbeddingPolicy_Untrimmed ==
    \A p \in Procs :
        inv[p].op = "create_transaction" =>
            EmbedsPerPolicy(p, unwrap(inv[p].input.description))

\* C5: a search whose query is empty or whitespace-only has ended, as soon
\* as it has started, with the invalid-params error "query must not be
\* empty" naming the field "query"; it has issued no external call, the
\* provider has received no request from it and the store no write.
C5_BlankQueryRejected ==
    \A p \in Procs :
        inv[p].op \in SearchOps /\ is_empty(trim(inv[p].input.query)) =>
            /\ inv[p].pc = "done"
            /\ inv[p].result = Some(invalid_params("query must not be empty", "query"))
            /\ inv[p].calls = << >>
            /\ EmbedsOf(inv[p].call) = << >>
            /\ WritesOf(inv[p].call) = {}

\* A search for a whitespace-only query was rejected.
C5_Witness ==
    /\ inv[Main].op = "search_similar_categories"
    /\ inv[Main].input.query = <<"\n", " ">>
    /\ Errored(Main)
    /\ unwrap(inv[Main].result).code = "invalid_params"

-----------------------------------------------------------------------------
(* C6, C7, C8: the course of one invocation. *)

\* The invocation in slot p embeds: an upsert, a search whose query is not
\* blank, a create_transaction whose description is not blank.
Embeds(p) ==
    \/ inv[p].op \in UpsertOps
    \/ inv[p].op \in SearchOps /\ ~is_empty(trim(inv[p].input.query))
    \/ inv[p].op = "create_transaction" /\ NonBlank(inv[p].input.description)

\* The kinds of the calls of the full sequence of the operation in slot p.
FullSequences(p) ==
    CASE inv[p].op = "create_transaction" ->
            {(IF Embeds(p) THEN <<"embed">> ELSE << >>) \o <<"insert", "select">>}
      [] inv[p].op \in UpsertOps ->
            {<<"embed", "select", "insert", "select">>,
             <<"embed", "select", "update", "select">>}
      [] inv[p].op \in SearchOps -> {<<"embed", "rpc">>}
      [] OTHER -> {<<"select">>}

\* The invocation in slot p ran its full sequence, every call succeeding.
Completed(p) ==
    /\ Kinds(p) \in FullSequences(p)
    /\ \A i \in DOMAIN inv[p].calls : inv[p].calls[i].ok

\* The result of the invocation in slot p is a populated result key.
Populated(p) ==
    /\ unwrap(inv[p].result).ok
    /\ unwrap(inv[p].result).key = result_key(inv[p].op)
    /\ inv[p].op \in WriteOps =>
          unwrap(inv[p].result).value.id = Str(inv[p].id)

\* The result of the invocation in slot p is an error with no result key.
Unpopulated(p) ==
    /\ ~unwrap(inv[p].result).ok
    /\ unwrap(inv[p].result).code \in {"invalid_params", "internal_error"}
    /\ {"key", "value"} \cap DOMAIN unwrap(inv[p].result) = {}

\* The call that ended the invocation in slot p is the re-fetch of the row
\* it had written.
FailedInRefetch(p) ==
    LET c == inv[p].calls
    IN  /\ Len(c) >= 2
        /\ c[Len(c)].kind = "select" /\ ~c[Len(c)].ok
        /\ c[Len(c) - 1].kind \in {"insert", "update"} /\ c[Len(c) - 1].ok
        /\ \A i \in 1..(Len(c) - 2) : c[i].kind \notin {"insert", "update"}

\* C6: an invocation that has ended either completed its full sequence and
\* returned the row under the result key, or returned an error with no
\* result key and has left no committed write.
C6_NoPartialSuccess ==
    \A p \in Procs :
        inv[p].pc = "done" =>
            \/ Completed(p) /\ Populated(p)
            \/ Unpopulated(p) /\ WritesOf(inv[p].call) = {}

\* What the code does guarantee: an invocation that returned an error has
\* left no committed write unless the call that failed was the re-fetch
\* after its insert or update; that one write then stays committed.
C6_NoPartialSuccess_ExceptRefetch ==
    \A p \in Procs :
        inv[p].pc = "done" =>
            \/ Completed(p) /\ Populated(p)
            \/ /\ Unpopulated(p)
               /\ ~Completed(p)
               /\ IF FailedInRefetch(p)
                  THEN Cardinality(WritesOf(inv[p].call)) = 1
                  ELSE WritesOf(inv[p].call) = {}

\* An upsert returned an error after its insert was committed.
C6_CommittedThenFailed ==
    \E p \in Procs :
        /\ Errored(p) /\ inv[p].op = "upsert_category"
        /\ Kinds(p) = <<"embed", "select", "insert", "select">>
        /\ \E i \in WritesOf(inv[p].call) :
              InsertedRow(storeLog[i].payload, storeLog[i].id) \in tables["categories"]

\* C7: the embedding call of an invocation is its first external call, and
\* the only embedding call; an invocation that embeds issues a store call
\* only after that call returned successfully; when the embedding call
\* fails, the invocation ends with the internal error of its embedding
\* step and issues no store call.
C7_EmbedBeforeStore ==
    \A p \in Procs :
        LET c == inv[p].calls
        IN  /\ \A i \in DOMAIN c : c[i].kind = "embed" <=> (i = 1 /\ Embeds(p))
            /\ Embeds(p) /\ c = << >> => inv[p].pc = "embed" /\ WritesOf(inv[p].call) = {}
            /\ Embeds(p) /\ c # << >> /\ ~c[1].ok =>
                  /\ Len(c) = 1
                  /\ WritesOf(inv[p].call) = {}
                  /\ inv[p].pc = "done"
                  /\ unwrap(inv[p].result).code = "internal_error"
                  /\ unwrap(inv[p].result).message = "Failed to " \o embed_action(inv[p].op)

\* upsert_account ended with an internal error after its embedding call
\* failed, with no store call.
C7_Witness ==
    \E p \in Procs :
        /\ inv[p].op = "upsert_account" /\ Errored(p)
        /\ Kinds(p) = <<"embed">> /\ ~inv[p].calls[1].ok
        /\ unwrap(inv[p].result).message = "Failed to generate account embedding"

\* C8: the row a successful create_transaction, upsert_category or
\* upsert_account returns has an "id" field holding a non-empty string.
C8_ReturnedRowHasId ==
    \A p \in Procs :
        Succeeded(p) /\ inv[p].op \in WriteOps =>
            /\ "id" \in DOMAIN unwrap(inv[p].result).value
            /\ unwrap(inv[p].result).value.id.t = "str"
            /\ ~is_empty(unwrap(inv[p].result).value.id.v)

\* One write succeeded on the insert path and one on the update path.
C8_Witness ==
    \E p, q \in Procs :
        /\ Succeeded(p) /\ inv[p].op = "create_transaction" /\ Did(p, "insert")
        /\ Succeeded(q) /\ inv[q].op = "upsert_account" /\ Did(q, "update")
        /\ unwrap(inv[p].result).value.id # unwrap(inv[q].result).value.id

-----------------------------------------------------------------------------
(* C9: the natural key of accounts, under sequential upserts. *)

\* The (name, type) pairs an upsert_account may carry.
AccountPairs == {<<input.name, input.type>> : input \in AccountMenu.upsert_account}

\* The filters that select the accounts of one (name, type) pair.
PairFilters(pair) == << <<"name", pair[1]>>, <<"type", pair[2]>> >>

\* C9: with upsert_account calls that do not overlap, each (name, type)
\* pair has at most one row; the first write for a pair is an insert and
\* every later one an update of the row that insert created, so no update
\* reaches the row of another pair, also one with the same name; the row of
\* a pair carries the payload of the last write for the pair; a successful
\* call returns the row of its own pair.
C9_AccountNaturalKey ==
    /\ \A pair \in AccountPairs :
          LET rows   == Select("accounts", PairFilters(pair))
              writes == WritesOn("accounts", PairFilters(pair))
          IN  /\ Cardinality(rows) <= 1
              /\ rows = {} <=> writes = << >>
              /\ \A row \in rows :
                    /\ writes[1].kind = "insert"
                    /\ row.id = Str(writes[1].id)
                    /\ \A i \in 2..Len(writes) :
                          writes[i].kind = "update" /\ writes[i].id = writes[1].id
                    /\ Carries(row, writes[Len(writes)].payload)
    /\ \A r1, r2 \in tables["accounts"] : r1.id = r2.id => r1 = r2
    /\ Succeeded(Main) /\ inv[Main].op = "upsert_account" =>
          /\ unwrap(inv[Main].result).value
                \in Select("accounts", PairFilters(<<inv[Main].input.name,
                                                     inv[Main].input.type>>))
          /\ Carries(unwrap(inv[Main].result).value, account_payload(inv[Main].input))

\* Two accounts share a name and differ in type, and one of them has been
\* updated by a later call with its own pair.
C9_Witness ==
    \E r1, r2 \in tables["accounts"] :
        /\ r1.name = r2.name /\ r1.type # r2.type
        /\ \E i \in DOMAIN storeLog :
              /\ storeLog[i].kind = "update" /\ storeLog[i].table = "accounts"
              /\ Str(storeLog[i].id) = r1.id
        /\ Succeeded(Main) /\ inv[Main].op = "upsert_account"

-----------------------------------------------------------------------------
(* C10: transactions are append-only. *)

\* The positions in the store's history of the writes on the
\* transactions table.
TransactionWrites == {i \in DOMAIN storeLog : storeLog[i].table = "transactions"}

\* The state part of C10.
TransactionsAppended ==
    /\ \A i \in TransactionWrites :
          /\ storeLog[i].kind = "insert"
          /\ storeLog[i].op = "create_transaction"
          /\ InsertedRow(storeLog[i].payload, storeLog[i].id) \in tables["transactions"]
    /\ Cardinality(tables["transactions"]) = Cardinality(TransactionWrites)
    /\ \A p \in Procs :
          inv[p].op = "create_transaction" =>
              /\ ~Did(p, "update")
              /\ WritesOf(inv[p].call) \subseteq TransactionWrites
              /\ Cardinality(WritesOf(inv[p].call)) <= 1
              /\ Succeeded(p) =>
                    /\ Cardinality(WritesOf(inv[p].call)) = 1
                    /\ Cardinality({i \in DOMAIN inv[p].calls :
                                      inv[p].calls[i].kind = "insert"}) = 1

\* C10: a successful create_transaction issues exactly one insert into
\* transactions and no update; the table holds one row per such insert,
\* also when payloads are identical; no step of any operation changes or
\* removes a row the table holds.
C10_TransactionsAppendOnly ==
    /\ []TransactionsAppended
    /\ [][tables["transactions"] \subseteq tables'["transactions"]]_vars

\* Two create_transaction invocations with one and the same payload both
\* succeeded, and the table holds two rows.
C10_Witness ==
    /\ \A p \in Procs : Succeeded(p) /\ inv[p].op = "create_transaction"
    /\ \A p, q \in Procs : inv[p].payload = inv[q].payload
    /\ Cardinality(tables["transactions"]) = 2

-----------------------------------------------------------------------------
(* C11: the embedding call of upsert_account. *)

\* C11: an upsert_account has one embedding request pending or has issued
\* exactly one, whose text is the account name, whether its select finds
\* the account or not; what it writes to the accounts table is the payload
\* made of its input alone, with no embedding column, whatever the
\* provider returned; no accounts row has an embedding column.
C11_AccountEmbeddingDiscarded ==
    /\ \A p \in Procs :
          inv[p].op = "upsert_account" =>
              /\ IF inv[p].pc = "embed"
                 THEN EmbedsOf(inv[p].call) = << >> /\ inv[p].text = inv[p].input.name
                 ELSE /\ Len(EmbedsOf(inv[p].call)) = 1
                      /\ EmbedsOf(inv[p].call)[1].text = inv[p].input.name
              /\ \A i \in WritesOf(inv[p].call) :
                    /\ storeLog[i].table = "accounts"
                    /\ storeLog[i].payload =
                          [name |-> Str(inv[p].input.name),
                           type |-> Str(inv[p].input.type),
                           currency |-> Str(inv[p].input.currency),
                           network |-> OptStr(inv[p].input.network),
                           institution |-> OptStr(inv[p].input.institution)]
              /\ Succeeded(p) => "embedding" \notin DOMAIN unwrap(inv[p].result).value
    /\ \A row \in tables["accounts"] : "embedding" \notin DOMAIN row

\* An account was inserted by one upsert and updated by a later one with
\* the same input; the provider returned different vectors to the two, each
\* asked once for the account name, and the two payloads are equal.
C11_Witness ==
    /\ Succeeded(Main) /\ inv[Main].op = "upsert_account" /\ Did(Main, "update")
    /\ \E i, j \in DOMAIN storeLog :
          /\ storeLog[i].kind = "insert" /\ storeLog[j].kind = "update"
          /\ storeLog[j].call = inv[Main].call
          /\ storeLog[i].id = storeLog[j].id
          /\ storeLog[i].payload = storeLog[j].payload
          /\ Len(EmbedsOf(storeLog[i].call)) = 1 /\ Len(EmbedsOf(storeLog[j].call)) = 1
          /\ EmbedsOf(storeLog[i].call)[1].text = inv[Main].input.name
          /\ EmbedsOf(storeLog[j].call)[1].text = inv[Main].input.name
          /\ EmbedsOf(storeLog[i].call)[1].response # EmbedsOf(storeLog[j].call)[1].response

-----------------------------------------------------------------------------
(* C12: the embedding call of upsert_category. *)

\* C12: an upsert_category has one embedding request pending or has issued
\* exactly one, whose text is the description when the input has one and
\* the name otherwise; it issues a store call only with the vector that
\* request returned, and every write it commits carries that vector as
\* its embedding, never null.
C12_CategoryEmbedding ==
    \A p \in Procs :
        inv[p].op = "upsert_category" =>
            LET text == IF inv[p].input.description = None
                        THEN inv[p].input.name
                        ELSE inv[p].input.description[1]
            IN  /\ IF inv[p].pc = "embed"
                   THEN EmbedsOf(inv[p].call) = << >> /\ inv[p].text = text
                   ELSE /\ Len(EmbedsOf(inv[p].call)) = 1
                        /\ EmbedsOf(inv[p].call)[1].text = text
                /\ \A i \in WritesOf(inv[p].call) :
                      /\ EmbedsOf(inv[p].call)[1].response.ok
                      /\ EmbedsOf(inv[p].call)[1].response.data # << >>
                      /\ storeLog[i].payload.embedding =
                            Vec(EmbedsOf(inv[p].call)[1].response.data[1])
                      /\ storeLog[i].payload.embedding # Null
                /\ Succeeded(p) =>
                      unwrap(inv[p].result).value.embedding =
                          Vec(EmbedsOf(inv[p].call)[1].response.data[1])

\* A category inserted without a description, its name embedded, was
\* updated by a later upsert with a description, the description embedded;
\* the provider returned another vector, which the row now carries.
C12_Witness ==
    /\ Succeeded(Main) /\ inv[Main].op = "upsert_category" /\ Did(Main, "update")
    /\ inv[Main].input.description = Some(Coffee)
    /\ EmbedsOf(inv[Main].call)[1].text = Coffee
    /\ \E i \in DOMAIN storeLog :
          /\ storeLog[i].kind = "insert" /\ storeLog[i].id = inv[Main].id
          /\ EmbedsOf(storeLog[i].call)[1].text = Food
          /\ storeLog[i].payload.embedding # inv[Main].payload.embedding
    /\ \E row \in tables["categories"] :
          row.id = Str(inv[Main].id) /\ row.embedding = Vec(V2)

-----------------------------------------------------------------------------
(* C13: the calls of a similarity search. *)

\* max(1, min(L.unwrap_or(5), 25))
NormalizedLimit(limit) ==
    LET n == IF limit = None THEN 5 ELSE limit[1]
        m == IF n < 25 THEN n ELSE 25
    IN  IF m > 1 THEN m ELSE 1

\* The positions of the RPC calls among the calls of the invocation in
\* slot p.
RpcCalls(p) == {i \in DOMAIN inv[p].calls : inv[p].calls[i].kind = "rpc"}

\* C13: a search whose query is not blank has one embedding request
\* pending or has issued exactly one, on the trimmed query; it sends at
\* most one RPC, after that request returned a vector, to the function
\* named as the operation, with that vector and with match_count =
\* max(1, min(limit or 5, 25)); a search that succeeded sent exactly one.
\* Every RPC sent carries a match_count from 1 to 25.
C13_SearchCalls ==
    \A p \in Procs :
        inv[p].op \in SearchOps /\ ~is_empty(trim(inv[p].input.query)) =>
            /\ IF inv[p].pc = "embed"
               THEN EmbedsOf(inv[p].call) = << >> /\ inv[p].text = trim(inv[p].input.query)
               ELSE /\ Len(EmbedsOf(inv[p].call)) = 1
                    /\ EmbedsOf(inv[p].call)[1].text = trim(inv[p].input.query)
            /\ Cardinality(RpcCalls(p)) <= 1
            /\ Succeeded(p) => Kinds(p) = <<"embed", "rpc">>
            /\ \A i \in RpcCalls(p) :
                  /\ i = 2
                  /\ inv[p].calls[1].kind = "embed" /\ inv[p].calls[1].ok
                  /\ inv[p].calls[i].target = inv[p].op
                  /\ inv[p].calls[i].arg.query_embedding =
                        EmbedsOf(inv[p].call)[1].response.data[1]
                  /\ inv[p].calls[i].arg.match_count = NormalizedLimit(inv[p].input.limit)
                  /\ inv[p].calls[i].arg.match_count \in 1..25

\* A category search for "me " with limit 100 succeeded: one embedding
\* request for "me", then one RPC to search_similar_categories with
\* match_count 25.
C13_Witness ==
    /\ Succeeded(Main) /\ inv[Main].op = "search_similar_categories"
    /\ inv[Main].input = [query |-> Meals, limit |-> Some(100)]
    /\ Len(EmbedsOf(inv[Main].call)) = 1
    /\ EmbedsOf(inv[Main].call)[1].text = <<"m", "e">>
    /\ Kinds(Main) = <<"embed", "rpc">>
    /\ inv[Main].calls[2].target = "search_similar_categories"
    /\ inv[Main].calls[2].arg.match_count = 25

-----------------------------------------------------------------------------
(* C14: resolve_limit. *)

\* r is the normalized form of the requested limit: 5 for no limit, 1 for
\* 0, n for n from 1 to 25, 25 for every larger n; which is
\* max(1, min(limit or 5, 25)).
IsNormalized(limit, r) ==
    /\ limit = None => r = 5
    /\ limit = Some(0) => r = 1
    /\ \A n \in 1..25 : limit = Some(n) => r = n
    /\ limit # None /\ limit # Some(0) /\ limit \notin {Some(n) : n \in 1..25} => r = 25
    /\ r = NormalizedLimit(limit)

\* C14: resolve_limit maps every requested limit to its normalized form,
\* and the match_count of an RPC is the normalized form of the limit the
\* search was called with.
C14_ResolveLimit ==
    /\ \A limit \in Limits : IsNormalized(limit, resolve_limit(limit))
    /\ \A n \in 0..(MaxLimit + 25) : IsNormalized(Some(n), resolve_limit(Some(n)))
    /\ \A p \in Procs :
          inv[p].op \in SearchOps =>
              \A i \in RpcCalls(p) :
                  IsNormalized(inv[p].input.limit, inv[p].calls[i].arg.match_count)

\* Searches were sent with match_count 25 for the largest limit; the
\* limits 0, 1, 25, 26 and none are among the requests.
C14_Witness ==
    /\ Did(Main, "rpc")
    /\ inv[Main].input.limit = Some(2147483647)
    /\ inv[Main].calls[2].arg.match_count = 25
    /\ {None, Some(0), Some(1), Some(25), Some(26)} \subseteq Limits

-----------------------------------------------------------------------------
(* C15, C16: list_accounts. *)

\* The row has a name that, lower-cased, contains the lower-cased term.
NameContains(row, term) ==
    /\ "name" \in DOMAIN row
    /\ row.name.t = "str"
    /\ \E i \in 0..(Len(row.name.v) - Len(term)) :
          \A k \in 1..Len(term) :
              to_lowercase_char(row.name.v[i + k]) = to_lowercase_char(term[k])

\* The rows of a sequence that satisfy Keep, in the order of the sequence.
Kept(rows, Keep(_)) == SelectSeq(rows, Keep)

\* C15: a list_accounts with a search term that succeeded returns exactly
\* the rows the store returned whose lower-cased name contains the
\* lower-cased search term; a row with no name is not in the result; the
\* operation fails only when the store's select fails.
C15_ListSearch ==
    \A p \in Procs :
        inv[p].op = "list_accounts" /\ inv[p].pc = "done" /\ is_some(inv[p].input.search) =>
            /\ Errored(p) <=> ~inv[p].calls[1].ok
            /\ Succeeded(p) =>
                  /\ unwrap(inv[p].result).value =
                        Kept(inv[p].rows,
                             LAMBDA r : NameContains(r, unwrap(inv[p].input.search)))
                  /\ \A i \in DOMAIN unwrap(inv[p].result).value :
                        is_some(name_of(unwrap(inv[p].result).value[i]))

\* C15 as amended: the term is trimmed of leading and trailing whitespace
\* before it is compared; with a term that is then empty no name filter
\* is applied and every row the store returned is in the result, a row
\* with no name included.
C15_ListSearch_Trimmed ==
    \A p \in Procs :
        inv[p].op = "list_accounts" /\ inv[p].pc = "done" /\ is_some(inv[p].input.search) =>
            /\ Errored(p) <=> ~inv[p].calls[1].ok
            /\ Succeeded(p) =>
                  IF is_empty(trim(unwrap(inv[p].input.search)))
                  THEN unwrap(inv[p].result).value = inv[p].rows
                  ELSE /\ unwrap(inv[p].result).value =
                             Kept(inv[p].rows,
                                  LAMBDA r : NameContains(r, trim(unwrap(inv[p].input.search))))
                       /\ \A i \in DOMAIN unwrap(inv[p].result).value :
                             is_some(name_of(unwrap(inv[p].result).value[i]))

\* The search " Ch " over five rows the store returned, one with a null
\* name, one with no name column and one named "Ot", succeeded with the
\* two rows named "Chk".
C15_Witness ==
    /\ Succeeded(Main) /\ inv[Main].op = "list_accounts"
    /\ inv[Main].input.search = Some(<<" ", "C", "h", " ">>)
    /\ Len(inv[Main].rows) = 5
    /\ \E i, j, k \in DOMAIN inv[Main].rows :
          /\ "name" \notin DOMAIN inv[Main].rows[i]
          /\ "name" \in DOMAIN inv[Main].rows[j] /\ inv[Main].rows[j].name = Null
          /\ "name" \in DOMAIN inv[Main].rows[k] /\ inv[Main].rows[k].name = Str(Other)
    /\ Len(unwrap(inv[Main].result).value) = 2
    /\ \A i \in 1..2 : unwrap(inv[Main].result).value[i].name = Str(Checking)


\* The sequence sub is a subsequence of the sequence seq: its elements are
\* elements of seq at increasing positions.
IsSubsequence(sub, seq) ==
    \E f \in [1..Len(sub) -> 1..Len(seq)] :
        /\ \A i, j \in 1..Len(sub) : i < j => f[i] < f[j]
        /\ \A i \in 1..Len(sub) : sub[i] = seq[f[i]]

\* C16: a list_accounts sends one select on accounts, ordered by name
\* ascending, with an equality predicate on type exactly when a type is
\* given; the rows it returns are a subsequence of the rows the store
\* returned, in the store's order, and with no effective search term they
\* are the store's rows unchanged: no row is dropped for its type by the
\* gateway.
C16_ListOrder ==
    \A p \in Procs :
        inv[p].op = "list_accounts" =>
            /\ Len(inv[p].calls) <= 1
            /\ \A i \in DOMAIN inv[p].calls :
                  /\ inv[p].calls[i].kind = "select"
                  /\ inv[p].calls[i].target = "accounts"
                  /\ inv[p].calls[i].arg.order = <<"name", TRUE>>
                  /\ inv[p].calls[i].arg.eq =
                        IF inv[p].input.type = None
                        THEN << >>
                        ELSE << <<"type", inv[p].input.type[1]>> >>
            /\ Succeeded(p) =>
                  /\ IsSubsequence(unwrap(inv[p].result).value, inv[p].rows)
                  /\ \A i \in DOMAIN inv[p].rows :
                        (\A j \in DOMAIN unwrap(inv[p].result).value :
                            unwrap(inv[p].result).value[j] # inv[p].rows[i])
                        => /\ is_some(inv[p].input.search)
                           /\ ~NameContains(inv[p].rows[i], trim(unwrap(inv[p].input.search)))

\* A list of the onchain accounts with the search "ch" returned the
\* store's three onchain rows without the one named "Ot" and the one with
\* no name; the store holds offchain accounts too.
C16_Witness ==
    /\ Succeeded(Main) /\ inv[Main].op = "list_accounts"
    /\ inv[Main].input = [type |-> Some("onchain"), search |-> Some(<<"c", "h">>)]
    /\ inv[Main].calls[1].arg.eq = << <<"type", "onchain">> >>
    /\ Len(inv[Main].rows) = 3
    /\ inv[Main].rows[1].name = Str(Checking) /\ inv[Main].rows[2].name = Str(Other)
    /\ unwrap(inv[Main].result).value = <<inv[Main].rows[1]>>
    /\ \E row \in tables["accounts"] : row.type = Str("offchain")

\* A list with no filter returned the store's five rows in the store's
\* order, the two rows named "Chk" first, in either order.
C16_Unfiltered ==
    /\ Succeeded(Main) /\ inv[Main].op = "list_accounts"
    /\ inv[Main].input = [type |-> None, search |-> None]
    /\ Len(inv[Main].rows) = 5
    /\ unwrap(inv[Main].result).value = inv[Main].rows


\* The last external call of the invocation in slot p.
LastCall(p) == inv[p].calls[Len(inv[p].calls)]

\* The invocation in slot p had an external call that failed.
CallFailed(p) == \E i \in DOMAIN inv[p].calls : ~inv[p].calls[i].ok

\* The error texts of the embedder and of the gateway for a failed call.
CauseTexts(p) ==
    CASE LastCall(p).kind = "embed" ->
            {embed(e.response).err :
                e \in {x \in {embedLog[i] : i \in DOMAIN embedLog} :
                          x.call = inv[p].call /\ ~embed(x.response).ok}}
      [] LastCall(p).kind = "rpc" ->
            {"RPC " \o LastCall(p).target \o " request failed",
             "RPC " \o LastCall(p).target \o " failed (500 Internal Server Error): boom",
             "failed to parse RPC response"}
      [] LastCall(p).kind = "insert" ->
            {"failed to insert into " \o LastCall(p).target \o ": " \o err : err \in ClientErrors}
      [] LastCall(p).kind = "update" ->
            {"failed to update " \o result_key(inv[p].op) \o ": " \o err : err \in ClientErrors}
      [] inv[p].op = "list_accounts" -> {"failed to list accounts: " \o err : err \in ClientErrors}
      [] OTHER -> {"failed to query " \o LastCall(p).target \o ": " \o err : err \in ClientErrors}

\* The result is the invalid-params error of a search: it names the field
\* "query".
InvalidParamsShape(res) ==
    /\ ~res.ok /\ res.code = "invalid_params"
    /\ res.message = "query must not be empty"
    /\ res.data = [field |-> "query"]

\* The result is the internal error of the operation: "Failed to" and the
\* action of the embedding step or of the gateway step, with details.
InternalShape(op, res) ==
    /\ ~res.ok /\ res.code = "internal_error"
    /\ res.message \in {"Failed to " \o embed_action(op), "Failed to " \o persist_action(op)}
    /\ DOMAIN res.data = {"details"}

\* C17: a failed invocation has one of two results: invalid-params with
\* the field "query", only for a search whose query is empty or blank and
\* before any external call; or the internal error "Failed to <action>"
\* with the cause text as details. An invocation with a failed embedding
\* or store call ends at that call with the internal error, the action
\* being the embedding action for the embedder and the gateway action for
\* the store.
C17_ErrorShapes ==
    \A p \in Procs :
        /\ Errored(p) =>
              \/ /\ InvalidParamsShape(unwrap(inv[p].result))
                 /\ inv[p].op \in SearchOps
                 /\ is_empty(trim(inv[p].input.query))
                 /\ inv[p].calls = << >>
              \/ /\ InternalShape(inv[p].op, unwrap(inv[p].result))
                 /\ inv[p].calls # << >>
        /\ CallFailed(p) =>
              /\ Errored(p)
              /\ ~LastCall(p).ok
              /\ InternalShape(inv[p].op, unwrap(inv[p].result))
              /\ unwrap(inv[p].result).message =
                    IF LastCall(p).kind = "embed"
                    THEN "Failed to " \o embed_action(inv[p].op)
                    ELSE "Failed to " \o persist_action(inv[p].op)
              /\ unwrap(inv[p].result).data.details \in CauseTexts(p)

\* A transaction search whose embedding succeeded and whose RPC was
\* answered with a non-success status ended with the internal error of
\* the search.
C17_Witness ==
    /\ Errored(Main) /\ inv[Main].op = "search_similar_transactions"
    /\ Kinds(Main) = <<"embed", "rpc">>
    /\ inv[Main].calls[1].ok /\ ~inv[Main].calls[2].ok
    /\ unwrap(inv[Main].result) =
          internal_error("search similar transactions",
                         "RPC search_similar_transactions failed (500 Internal Server Error): boom")

\* A create_transaction whose provider returned no candidate ended with
\* the internal error of the embedding step.
C17_EmbedFailure ==
    /\ Errored(Main) /\ inv[Main].op = "create_transaction"
    /\ Kinds(Main) = <<"embed">>
    /\ unwrap(inv[Main].result) =
          internal_error("generate transaction embedding",
                         "OpenAI did not return embedding data")

\* A category search with a blank query ended with invalid-params.
C17_BlankQuery ==
    /\ Errored(Main) /\ inv[Main].op = "search_similar_categories"
    /\ inv[Main].input.query = <<"\n", " ">>
    /\ InvalidParamsShape(unwrap(inv[Main].result))


\* The calls of the invocation in slot p to the row store.
StoreCalls(p) == SelectSeq(inv[p].calls, LAMBDA c : c.kind # "embed")

\* The calls of the invocation in slot p to the embedding provider.
EmbedCalls(p) == SelectSeq(inv[p].calls, LAMBDA c : c.kind = "embed")

\* The invocation in slot p made no request twice, made at most one
\* embedding call and at most three store calls, and a call that failed
\* was its last call and ended it with an error.
NoRetry(p) ==
    /\ \A i, j \in DOMAIN inv[p].calls :
          /\ inv[p].calls[i].kind = inv[p].calls[j].kind
          /\ inv[p].calls[i].target = inv[p].calls[j].target
          /\ inv[p].calls[i].arg = inv[p].calls[j].arg
          => i = j
    /\ Len(EmbedCalls(p)) <= 1
    /\ Len(StoreCalls(p)) <= 3
    /\ \A i \in DOMAIN inv[p].calls :
          ~inv[p].calls[i].ok => i = Len(inv[p].calls) /\ Errored(p)

\* No invocation retries.
NoRetryAnywhere == \A p \in Procs : NoRetry(p)

\* The invocation with this number is running in slot p.
Running(p, c) == inv[p].call = c /\ inv[p].pc # "done"

\* The invocation with this number has ended in slot p, with a result.
Ended(p, c) == inv[p].call = c /\ inv[p].pc = "done" /\ is_some(inv[p].result)

\* C18: no invocation repeats a call, makes more than one embedding call
\* or more than three store calls, or goes on after a call that failed;
\* and, every external call returning, every invocation that is running
\* ends with a success or an error.
C18_NoRetryTerminates ==
    /\ []NoRetryAnywhere
    /\ \A p \in Procs : \A c \in 1..MaxFairInvocations : Running(p, c) ~> Ended(p, c)

\* An account upsert ended with a success after one embedding call and
\* three store calls, the most an invocation makes.
C18_Witness ==
    /\ Succeeded(Main) /\ inv[Main].op = "upsert_account"
    /\ Kinds(Main) = <<"embed", "select", "update", "select">>
    /\ Len(EmbedCalls(Main)) = 1 /\ Len(StoreCalls(Main)) = 3

\* A category upsert ended with an error at its second call, the select
\* that failed, after which it made no call.
C18_EndsAtFailure ==
    /\ Errored(Main) /\ inv[Main].op = "upsert_category"
    /\ Kinds(Main) = <<"embed", "select">>
    /\ inv[Main].calls[1].ok /\ ~inv[Main].calls[2].ok


\* The texts of the embedding requests the provider received, in order.
EmbeddedTexts == [i \in DOMAIN embedLog |-> embedLog[i].text]

\* The texts the complete workflow embeds when its category has this
\* description.
WorkflowTexts(description) ==
    <<Checking, unwrap_or(description, Food), Coffee, Coffee>>

\* The four operations of the workflow have run and succeeded.
WorkflowDone == started = 4 /\ Succeeded(Main)

\* The description of the category the workflow wrote.
WrittenDescription ==
    LET w == storeLog[CHOOSE i \in WritesOf(2) : TRUE]
    IN  IF w.payload.description = Null THEN None ELSE Some(w.payload.description.v)

\* C19: the embedding requests of the workflow are received in the order
\* of its operations: at every moment their texts are the first ones of
\* "Chk", the category's description ("Food" when it has none), "co", "co";
\* when the four operations have succeeded there are exactly these four,
\* one transaction has been inserted and the last operation has sent one
\* similarity search, with match_count 5.
C19_WorkflowEmbeddings ==
    /\ \E input \in WorkflowMenu.upsert_category :
          /\ Len(EmbeddedTexts) <= 4
          /\ EmbeddedTexts = SubSeq(WorkflowTexts(input.description), 1, Len(EmbeddedTexts))
    /\ \A i, j \in DOMAIN embedLog : i < j => embedLog[i].call < embedLog[j].call
    /\ WorkflowDone =>
          /\ EmbeddedTexts = WorkflowTexts(WrittenDescription)
          /\ [i \in DOMAIN embedLog |-> embedLog[i].call] = <<1, 2, 3, 4>>
          /\ Cardinality(TransactionWrites) = 1
          /\ Cardinality(tables["transactions"]) = 1
          /\ Cardinality(RpcCalls(Main)) = 1
          /\ \A i \in RpcCalls(Main) :
                /\ inv[Main].calls[i].target = "search_similar_transactions"
                /\ inv[Main].calls[i].arg.match_count = 5

\* The workflow has succeeded with a category that has a description: the
\* provider received "Chk", the description, "co", "co".
C19_Witness ==
    /\ WorkflowDone
    /\ EmbeddedTexts = <<Checking, Meals, Coffee, Coffee>>
    /\ Cardinality(tables["transactions"]) = 1

\* The workflow has succeeded with a category that has no description:
\* the provider received "Chk", "Food", "co", "co".
C19_WitnessNoDescription ==
    /\ WorkflowDone
    /\ EmbeddedTexts = <<Checking, Food, Coffee, Coffee>>


\* The invocation in slot p has made its embedding call, which the
\* provider answered with resp.
Answered(p, resp) ==
    /\ inv[p].call > 0
    /\ \E i \in DOMAIN inv[p].calls : inv[p].calls[i].kind = "embed"
    /\ \E i \in DOMAIN embedLog :
          embedLog[i].call = inv[p].call /\ embedLog[i].response = resp

\* The embedding call of the invocation in slot p failed with this error.
EmbedFailedWith(p, err) ==
    /\ Kinds(p) = <<"embed">> /\ ~inv[p].calls[1].ok
    /\ Errored(p)
    /\ unwrap(inv[p].result).data.details = err
    /\ inv[p].embedding = None

\* The embedding call of the invocation in slot p returned this vector.
EmbedReturned(p, vector) ==
    /\ inv[p].calls[1].kind = "embed" /\ inv[p].calls[1].ok
    /\ inv[p].embedding = Some(vector)

\* C20: an embedding call has one of three outcomes. The provider call
\* failed or was answered with a non-success response: the call fails with
\* "embedding request failed". The provider succeeded with no candidate:
\* the call fails with "OpenAI did not return embedding data". Otherwise
\* the call returns the vector of the first candidate, whatever the
\* further candidates are.
C20_EmbedOutcomes ==
    \A p \in Procs : \A resp \in ProviderResponses :
        Answered(p, resp) =>
            /\ ~resp.ok => EmbedFailedWith(p, "embedding request failed")
            /\ resp.ok /\ resp.data = << >> =>
                  EmbedFailedWith(p, "OpenAI did not return embedding data")
            /\ resp.ok /\ resp.data # << >> => EmbedReturned(p, resp.data[1])

\* The provider answered a search's embedding request with two
\* candidates, and the call returned the vector of the first.
C20_Witness ==
    /\ Answered(Main, [ok |-> TRUE, data |-> <<V2, V1>>])
    /\ inv[Main].op \in SearchOps
    /\ EmbedReturned(Main, V2)

\* The provider answered with no candidate, and the call failed.
C20_NoCandidate ==
    /\ Answered(Main, [ok |-> TRUE, data |-> << >>])
    /\ EmbedFailedWith(Main, "OpenAI did not return embedding data")

\* The provider call failed, and the call failed.
C20_RequestFailed ==
    /\ Answered(Main, [ok |-> FALSE, data |-> << >>])
    /\ EmbedFailedWith(Main, "embedding request failed")


\* The search in slot p got an HTTP response to its POST and call_rpc
\* has read its body.
Responded(p) ==
    /\ inv[p].op \in SearchOps
    /\ inv[p].pc = "done"
    /\ is_some(inv[p].response)
    /\ unwrap(inv[p].response).transport = "ok"

\* The search in slot p failed in the gateway with this error.
SearchFailedWith(p, err) ==
    /\ Errored(p)
    /\ ~LastCall(p).ok
    /\ unwrap(inv[p].result) = internal_error(persist_action(inv[p].op), err)

\* C21: a search whose RPC was answered with a status outside 200..299
\* fails with "RPC <function> failed (<status>): <body text>", whatever the
\* body; one answered with a status in 200..299 returns the rows of the
\* body when the body is an array and fails with "failed to parse RPC
\* response" when it is not.
C21_RpcOutcome ==
    \A p \in Procs :
        Responded(p) =>
            LET resp == unwrap(inv[p].response)
                function == LastCall(p).target
            IN  /\ LastCall(p).kind = "rpc"
                /\ resp.status.code \notin 200..299 =>
                      SearchFailedWith(p, "RPC " \o function \o " failed ("
                                             \o ToString(resp.status.code) \o " "
                                             \o resp.status.reason \o "): "
                                             \o body_text(resp.body))
                /\ resp.status.code \in 200..299 /\ resp.body.t = "array" =>
                      /\ Succeeded(p)
                      /\ unwrap(inv[p].result).value = resp.body.v
                /\ resp.status.code \in 200..299 /\ resp.body.t # "array" =>
                      SearchFailedWith(p, "failed to parse RPC response")

\* A category search was answered with 404 and an array of one row as the
\* body, and failed with the status and the body text.
C21_Witness ==
    /\ Responded(Main)
    /\ unwrap(inv[Main].response).status.code = 404
    /\ unwrap(inv[Main].response).body.t = "array"
    /\ Len(unwrap(inv[Main].response).body.v) = 1
    /\ SearchFailedWith(Main, "RPC search_similar_categories failed (404 Not Found): [..]")

\* A search was answered with 204 and an empty body, and failed with the
\* parse error.
C21_ParseError ==
    /\ Responded(Main)
    /\ unwrap(inv[Main].response).status.code = 204
    /\ SearchFailedWith(Main, "failed to parse RPC response")

\* A category search was answered with 201 and an array of one row, and
\* returned the row.
C21_Rows ==
    /\ Responded(Main)
    /\ unwrap(inv[Main].response).status.code = 201
    /\ Succeeded(Main)
    /\ Len(unwrap(inv[Main].result).value) = 1

\* The gateway's service key holds a line feed: the search failed on the
\* apikey header after its embedding call, without a request to the RPC.
C21_InvalidKey ==
    /\ ~valid_header_value(boot.service_key)
    /\ Errored(Main) /\ inv[Main].op \in SearchOps
    /\ Kinds(Main) = <<"embed">> /\ LastCall(Main).ok
    /\ unwrap(inv[Main].result) =
          internal_error(persist_action(inv[Main].op), "invalid apikey header value")

\* The response to a search's POST has arrived and its body is not read
\* yet: the search has not returned.
C21_BodyPending ==
    /\ inv[Main].pc = "body" /\ is_some(inv[Main].response)
    /\ Kinds(Main) = <<"embed">>

\* The variables that AppConfig::from_env requires.
RequiredVars == {"SUPABASE_URL", "SUPABASE_SERVICE_KEY", "OPENAI_API_KEY"}

\* The order in which from_env reads them.
RequiredOrder == [SUPABASE_URL |-> 1, SUPABASE_SERVICE_KEY |-> 2, OPENAI_API_KEY |-> 3]

\* The required variables that are not set in the environment of the
\* process (from the moment main has loaded the .env file: with the
\* variables of the file).
MissingVars == {key \in RequiredVars : boot.env[key] = Unset}

\* The required variables that std::env::var cannot read: not set, or
\* set to bytes that are no Unicode text.
UnreadableVars == {key \in RequiredVars : boot.env[key].t # "set"}

\* The required variable from_env reports: the first, in the order of
\* the fields of AppConfig, that cannot be read.
FirstUnreadable ==
    CHOOSE key \in UnreadableVars :
        \A other \in UnreadableVars : RequiredOrder[key] <= RequiredOrder[other]

\* main has exited on the configuration: it holds none, has constructed
\* neither the gateway nor the embedding service, and no tool invocation
\* has started.
NothingStarted ==
    /\ boot.pc = "exited"
    /\ boot.config = None
    /\ ~boot.supabase /\ ~boot.embedder
    /\ started = 0
    /\ \A p \in Procs : inv[p] = Idle

\* C22 as claimed: when a required variable is missing from the
\* environment, main, once it has loaded the configuration, has exited
\* with "Missing required env var <NAME>", NAME being a missing variable;
\* it has no configuration, has constructed neither the gateway nor the
\* embedding service, and no tool invocation has started.
C22_MissingConfigFatal ==
    MissingVars # {} /\ boot.pc \notin {"dotenv", "config"} =>
        /\ NothingStarted
        /\ \E key \in MissingVars :
              boot.exit = Some("Missing required env var " \o key)

\* C22, amended: when a required variable cannot be read from the
\* environment that AppConfig::from_env reads (it is not set, or set to
\* bytes that are no Unicode text), main, once it has loaded the
\* configuration, has exited with "Missing required env var <NAME>", NAME
\* being the first required variable that cannot be read, in the order
\* SUPABASE_URL, SUPABASE_SERVICE_KEY, OPENAI_API_KEY; it has no
\* configuration, has constructed neither the gateway nor the embedding
\* service, and no tool invocation has started.
C22_UnreadableConfigFatal ==
    UnreadableVars # {} /\ boot.pc \notin {"dotenv", "config"} =>
        /\ NothingStarted
        /\ boot.exit = Some("Missing required env var " \o FirstUnreadable)

\* SUPABASE_SERVICE_KEY is set to bytes that are no Unicode text and
\* OPENAI_API_KEY is missing: main has exited naming the service key,
\* which is set, as missing.
C22_NamesUnreadable ==
    /\ boot.pc = "exited"
    /\ boot.env["SUPABASE_URL"].t = "set"
    /\ boot.env["SUPABASE_SERVICE_KEY"] = NotUnicode
    /\ MissingVars = {"OPENAI_API_KEY"}
    /\ boot.exit = Some("Missing required env var SUPABASE_SERVICE_KEY")
    /\ ~boot.supabase /\ ~boot.embedder /\ started = 0

\* Only OPENAI_API_KEY is missing, and main has exited naming it.
C22_Witness ==
    /\ boot.pc = "exited"
    /\ boot.env \in Envs
    /\ MissingVars = {"OPENAI_API_KEY"}
    /\ boot.env["SUPABASE_SERVICE_KEY"] = Set(<<"k">>)
    /\ boot.exit = Some("Missing required env var OPENAI_API_KEY")
    /\ ~boot.supabase /\ ~boot.embedder /\ started = 0

\* With every required variable set, even to the empty text, the server
\* has come to serve and has taken an invocation.
C22_Serving ==
    /\ boot.pc = "serving" /\ boot.supabase /\ boot.embedder
    /\ boot.env["SUPABASE_URL"] = Set(<< >>)
    /\ started = 1

\* SUPABASE_URL was not set when main was entered and the .env file
\* supplied it: the server has come to serve.
C22_FromDotenv ==
    /\ boot.pc = "serving"
    /\ boot.loaded = {"SUPABASE_URL"}
    /\ boot.env["SUPABASE_URL"] = Set(<<"u">>)


\* The store calls the upsert in slot p has made are the first ones of
\* the sequence select on the natural key with limit 1, then update by id
\* or insert of the payload, then select by id with limit 1, all on the
\* upsert's table; an upsert that succeeded made all three and returns a
\* row with the id of the last select.
UpsertCallOrder(p) ==
    LET calls == StoreCalls(p)
        table == table_of(inv[p].op)
    IN  /\ Len(calls) <= 3
        /\ \A i \in DOMAIN calls : calls[i].target = table
        /\ Len(calls) >= 1 =>
              calls[1] = Call("select", table,
                              [eq |-> natural_key(inv[p].op, inv[p].input), limit |-> 1],
                              calls[1].ok)
        /\ Len(calls) >= 2 =>
              /\ calls[1].ok
              /\ \/ calls[2] = Call("update", table, inv[p].id, calls[2].ok)
                 \/ calls[2] = Call("insert", table, inv[p].payload, calls[2].ok)
        /\ Len(calls) >= 3 =>
              /\ calls[2].ok
              /\ calls[3] = Call("select", table,
                                 [eq |-> << <<"id", inv[p].id>> >>, limit |-> 1],
                                 calls[3].ok)
              /\ calls[2].kind = "insert" =>
                    \E i \in WritesOf(inv[p].call) :
                        /\ storeLog[i].kind = "insert"
                        /\ storeLog[i].id = inv[p].id
        /\ Succeeded(p) =>
              /\ Len(calls) = 3
              /\ calls[3].ok
              /\ unwrap(inv[p].result).value.id = Str(inv[p].id)

\* The state part of C23.
UpsertCallsInOrder == \A p \in Procs : inv[p].op \in UpsertOps => UpsertCallOrder(p)

\* The natural-key select of the upsert in slot p returns in this step.
KeySelectReturns(p) ==
    /\ inv[p].op \in UpsertOps /\ inv[p].pc = "select"
    /\ inv'[p] # inv[p]

\* The action part of C23: after the natural-key select the upsert goes
\* on to the update only with the id of a row that has the key, and to
\* the insert only when no row has the key.
UpsertBranch(p) ==
    KeySelectReturns(p) =>
        LET found == Select(table_of(inv[p].op), natural_key(inv[p].op, inv[p].input))
        IN  /\ inv'[p].pc \in {"update", "insert", "done"}
            /\ inv'[p].pc = "update" => \E row \in found : row.id = Str(inv'[p].id)
            /\ inv'[p].pc = "insert" => found = {}

\* C23: an upsert issues its store calls in this order and no others: a
\* select on the natural-key columns with limit 1; then, a row having been
\* found, an update by that row's id and a select by that id, and no
\* insert; no row having been found, an insert and a select by the
\* identifier the insert returned, and no update. The row returned is the
\* one the last select returned.
C23_UpsertCallOrder ==
    /\ []UpsertCallsInOrder
    /\ [][\A p \in Procs : UpsertBranch(p)]_vars

\* An account upsert found its row, updated it by id, fetched it by id
\* and returned it, and a category upsert found no row, inserted one,
\* fetched it by the id of the insert and returned it.
C23_Witness ==
    \E p, q \in Procs :
        /\ Succeeded(p) /\ inv[p].op = "upsert_account"
        /\ [i \in DOMAIN StoreCalls(p) |-> StoreCalls(p)[i].kind] = <<"select", "update", "select">>
        /\ Succeeded(q) /\ inv[q].op = "upsert_category"
        /\ [i \in DOMAIN StoreCalls(q) |-> StoreCalls(q)[i].kind] = <<"select", "insert", "select">>
        /\ unwrap(inv[q].result).value \in tables["categories"]


\* The row has no "id" field that holds a string.
LacksId(row) == "id" \notin DOMAIN row \/ row.id.t # "str"

\* The upsert in slot p failed on a row without an id: it ended after its
\* natural-key select, which succeeded, with the internal error whose
\* details are "row missing id column", and it wrote nothing.
FailedOnMissingId(p) ==
    /\ Errored(p)
    /\ Kinds(p) = <<"embed", "select">>
    /\ LastCall(p).ok
    /\ unwrap(inv[p].result) =
          internal_error(persist_action(inv[p].op), "row missing id column")
    /\ WritesOf(inv[p].call) = {}

\* The state part of C24: an upsert whose natural-key select succeeded
\* while every row with the key lacked an id has failed on the missing id.
MissingIdFails ==
    \A p \in Procs :
        /\ inv[p].op \in UpsertOps
        /\ Len(inv[p].calls) >= 2 /\ inv[p].calls[2].ok
        /\ KeyRows(p) # {}
        /\ \A row \in KeyRows(p) : LacksId(row)
        => FailedOnMissingId(p)

\* The action part of C24: the step in which the natural-key select
\* returns a row without an id ends the upsert with that error and leaves
\* the store as it was.
MissingIdStep(p) ==
    /\ KeySelectReturns(p)
    /\ LET found == Select(table_of(inv[p].op), natural_key(inv[p].op, inv[p].input))
       IN  found # {} /\ \A row \in found : LacksId(row)
    /\ inv'[p].calls[2].ok
    => /\ inv'[p].pc = "done"
       /\ unwrap(inv'[p].result) =
             internal_error(persist_action(inv[p].op), "row missing id column")
       /\ tables' = tables /\ storeLog' = storeLog /\ nextId' = nextId

\* C24: when the natural-key select of an upsert finds a row that has no
\* "id" field holding a string, the upsert fails with the internal error
\* "row missing id column", issues no update and no insert, and the store
\* is unchanged.
C24_MissingIdFails ==
    /\ []MissingIdFails
    /\ [][\A p \in Procs : MissingIdStep(p)]_vars

\* An account upsert found the account whose id is a number and failed on
\* the missing id; the store has the rows it had.
C24_Witness ==
    /\ inv[Main].op = "upsert_account" /\ inv[Main].input.name = Checking
    /\ FailedOnMissingId(Main)
    /\ tables["accounts"] = ForeignRows["accounts"]

\* A category upsert found the category with no id column and failed on
\* the missing id.
C24_NoIdColumn ==
    /\ inv[Main].op = "upsert_category" /\ inv[Main].input.name = Food
    /\ FailedOnMissingId(Main)


\* The ids of the rows of a table.
IdsOf(rows) == {row.id : row \in rows}

\* No row leaves a table in this step: every id stays, and the ids stay
\* different, so no table has fewer rows than before.
NoRowLost ==
    \A t \in TableNames :
        /\ IdsOf(tables[t]) \subseteq IdsOf(tables'[t])
        /\ Cardinality(tables'[t]) >= Cardinality(tables[t])
        /\ Cardinality(IdsOf(tables'[t])) = Cardinality(tables'[t])

\* The upsert in slot p applies its update in this step.
Updates(p) ==
    /\ inv[p].op \in UpsertOps /\ inv[p].pc = "update"
    /\ inv'[p].pc = "refetch"

\* The update of the upsert in slot p patches the one row that has the id
\* its select returned, and every other row, those of the same natural
\* key included, is as it was.
UpdatesOneRow(p) ==
    Updates(p) =>
        LET t == table_of(inv[p].op)
        IN  \E row \in KeyRows(p) :
                /\ row.id = Str(inv[p].id)
                /\ tables'[t] = (tables[t] \ {row}) \cup {UpdatedRow(row, inv[p].payload)}
                /\ \A other \in KeyRows(p) \ {row} : other \in tables'[t]
                /\ \A u \in TableNames \ {t} : tables'[u] = tables[u]

\* The categories named "Food" are the two of the start, the duplicate
\* and the original, each with its id.
DuplicatePersists ==
    IdsOf(Select("categories", << <<"name", Food>> >>))
        = {Str(GeneratedId(1)), Str(GeneratedId(2))}

\* C25: no step removes a row or makes one row of two, so no table ever
\* has fewer rows; on a natural key that has two rows, an upsert updates
\* exactly the row whose id its limit-1 select returned and leaves the
\* other as it was, and the two rows stay for ever.
C25_NoDeleteNoMerge ==
    /\ [][NoRowLost]_vars
    /\ [][\A p \in Procs : UpdatesOneRow(p)]_vars
    /\ []DuplicatePersists

\* Two upserts on "Food" have succeeded, one updated the first of the two
\* rows and the other the second, and the two rows are still there.
C25_Witness ==
    /\ \A p \in Procs : Succeeded(p) /\ inv[p].op = "upsert_category"
    /\ {inv[p].id : p \in Procs} = {GeneratedId(1), GeneratedId(2)}
    /\ Cardinality(tables["categories"]) = 2
    /\ \A row \in tables["categories"] : row.description = Str(Coffee)

\* One upsert on "Food" has succeeded and the row it did not select is as
\* it was written.
C25_OtherUnchanged ==
    \E p \in Procs :
        /\ Succeeded(p) /\ inv[p].op = "upsert_category" /\ started = 1
        /\ inv[p].id = GeneratedId(1)
        /\ InsertedRow(DuplicateWrites[2].payload, GeneratedId(2)) \in tables["categories"]


\* The upsert in slot p has applied its update.
Updated(p) ==
    /\ inv[p].op \in UpsertOps
    /\ \E i \in DOMAIN inv[p].calls : inv[p].calls[i].kind = "update" /\ inv[p].calls[i].ok

\* The row of the table of the upsert in slot p that has the id the
\* upsert selected.
SelectedRow(p) == CHOOSE row \in tables[table_of(inv[p].op)] : row.id = Str(inv[p].id)

\* The stored row has what the category upsert's input says, an omitted
\* kind being "expense" and an omitted description the name.
CategoryOverwritten(row, input, embedding) ==
    /\ row.name = Str(input.name)
    /\ row.kind = (IF input.kind = None THEN Str("expense") ELSE Str(input.kind[1]))
    /\ row.description =
          (IF input.description = None THEN Str(input.name) ELSE Str(input.description[1]))
    /\ row.embedding = Vec(embedding)

\* The stored row has what the account upsert's input says, an omitted
\* network or institution being null.
AccountOverwritten(row, input) ==
    /\ row.name = Str(input.name)
    /\ row.type = Str(input.type)
    /\ row.currency = Str(input.currency)
    /\ row.network = (IF input.network = None THEN Null ELSE Str(input.network[1]))
    /\ row.institution =
          (IF input.institution = None THEN Null ELSE Str(input.institution[1]))

\* The table has one row per id.
DuplicateFree(table) == Cardinality(IdsOf(tables[table])) = Cardinality(tables[table])

\* C26: after the update of an upsert the stored row has every column of
\* the payload as the input gives it, whatever it held before: for a
\* category the kind is "expense" when omitted and the description is the
\* name when omitted; for an account network and institution are null
\* when omitted. The row keeps its id, and a successful upsert returns it.
C26_UpdateOverwrites ==
    \A p \in Procs :
        Updated(p) =>
            /\ \E row \in KeyRows(p) : row.id = Str(inv[p].id)
            /\ IF inv[p].op = "upsert_category"
               THEN CategoryOverwritten(SelectedRow(p), inv[p].input, unwrap(inv[p].embedding))
               ELSE AccountOverwritten(SelectedRow(p), inv[p].input)
            /\ Succeeded(p) => unwrap(inv[p].result).value = SelectedRow(p)

\* The category stored with kind "income" and a description was upserted
\* with neither, and is now stored and returned with kind "expense" and
\* its name as the description.
C26_Witness ==
    /\ Succeeded(Main) /\ Updated(Main) /\ started = 1
    /\ inv[Main].input = [name |-> Food, kind |-> None, description |-> None]
    /\ unwrap(inv[Main].result).value.kind = Str("expense")
    /\ unwrap(inv[Main].result).value.description = Str(Food)
    /\ DuplicateFree("categories")

\* The account stored with a network and an institution was upserted
\* with neither, and is now stored with null in both.
C26_AccountNulls ==
    /\ Succeeded(Main) /\ Updated(Main) /\ started = 1
    /\ inv[Main].op = "upsert_account"
    /\ inv[Main].input.network = None /\ inv[Main].input.institution = None
    /\ SelectedRow(Main).network = Null /\ SelectedRow(Main).institution = Null


\* The row has the natural key of the upsert in slot p: the name for a
\* category, the name and the type for an account.
OwnKey(row, p) ==
    /\ "name" \in DOMAIN row /\ row.name = Str(inv[p].input.name)
    /\ inv[p].op = "upsert_account" => row.type = Str(inv[p].input.type)

\* The rows of its table that have the natural key of the upsert in slot p.
OwnRows(p) == {row \in tables[table_of(inv[p].op)] : OwnKey(row, p)}

\* The store and the number of generated ids after the upsert in slot p
\* has run alone, every call succeeding, on the store T with n generated
\* ids: the row of its key patched with its payload, or a new row.
After(T, n, p) ==
    LET t == table_of(inv[p].op)
    IN  IF \E row \in T[t] : OwnKey(row, p)
        THEN [store |-> [T EXCEPT ![t] = {IF OwnKey(row, p)
                                           THEN UpdatedRow(row, inv[p].payload)
                                           ELSE row : row \in @}],
              ids |-> n]
        ELSE [store |-> [T EXCEPT ![t] = @ \cup {InsertedRow(inv[p].payload,
                                                             GeneratedId(n + 1))}],
              ids |-> n + 1]

\* The store after the upserts in slots p and q have run one after the
\* other, p first, on the store of the earlier session.
OneAfterTheOther(p, q) ==
    LET first == After(StoreAfter(EarlierWrites), Len(EarlierWrites), p)
    IN  After(first.store, first.ids, q).store

\* C27: two upserts on different natural keys that ran concurrently and
\* succeeded leave the store that running them one after the other, in
\* one of the two orders, leaves; each of the two keys has exactly one
\* row, and never more than one; each caller receives the stored row of
\* its own key.
C27_DisjointUpserts ==
    /\ \A p \in Procs : inv[p].op \in UpsertOps => Cardinality(OwnRows(p)) <= 1
    /\ (\A p \in Procs : Succeeded(p)) =>
          /\ tables \in {OneAfterTheOther(Main, Second), OneAfterTheOther(Second, Main)}
          /\ \A p \in Procs :
                /\ Cardinality(OwnRows(p)) = 1
                /\ unwrap(inv[p].result).value \in OwnRows(p)

\* The upsert of the stored offchain account and the upsert of an onchain
\* account of the same name ran interleaved, the second one selecting
\* before the first one updated and inserting after it, and both
\* succeeded: the accounts are the two, one per type.
C27_Witness ==
    /\ \A p \in Procs : Succeeded(p) /\ inv[p].op = "upsert_account"
    /\ inv[Second].input.name = Checking
    /\ inv[Main].call = 1 /\ inv[Second].call = 2
    /\ Len(storeLog) = 4
    /\ storeLog[3].call = 1 /\ storeLog[3].kind = "update"
    /\ storeLog[4].call = 2 /\ storeLog[4].kind = "insert"
    /\ Cardinality(tables["accounts"]) = 2
    /\ unwrap(inv[Main].result).value.type = Str("offchain")
    /\ unwrap(inv[Second].result).value.type = Str("onchain")


\* Two upserts that both insert ran concurrently and succeeded, and the
\* one started second inserted first: the store is the one that running
\* it first leaves.
C27_EitherOrder ==
    /\ \A p \in Procs : Succeeded(p)
    /\ inv[Main].call = 1
    /\ inv[Main].input.name = Other /\ inv[Second].input.name = Other
    /\ tables = OneAfterTheOther(Second, Main)
    /\ tables # OneAfterTheOther(Main, Second)


\* The operations that only read.
ReadOps == {"list_accounts", "search_similar_transactions", "search_similar_categories"}

\* The state part of C28: a reading invocation has issued selects, RPCs
\* and embedding calls only, a list_accounts selects only, and it has
\* committed no write.
ReadersIssueNoWrite ==
    \A p \in Procs :
        inv[p].op \in ReadOps =>
            /\ \A i \in DOMAIN inv[p].calls :
                  inv[p].calls[i].kind \in
                      (IF inv[p].op = "list_accounts" THEN {"select"} ELSE {"embed", "rpc"})
            /\ WritesOf(inv[p].call) = {}
            /\ inv[p].op = "list_accounts" => EmbedsOf(inv[p].call) = << >>

\* The action part of C28: a step of a reading invocation, its start, a
\* call that succeeds or fails, its end, leaves every table as it is.
ReaderStepKeepsStore ==
    \A p \in Procs :
        inv'[p] # inv[p] /\ inv'[p].op \in ReadOps =>
            /\ tables' = tables
            /\ storeLog' = storeLog
            /\ nextId' = nextId

\* C28: list_accounts, search_similar_transactions and
\* search_similar_categories issue no insert and no update, whether they
\* succeed or fail, and no step of theirs changes a table; list_accounts
\* issues no embedding call either.
C28_ReadOnly ==
    /\ []ReadersIssueNoWrite
    /\ [][ReaderStepKeepsStore]_vars

\* A list_accounts and a category search have run to success next to each
\* other, and the store is the one of the start.
C28_Witness ==
    /\ \A p \in Procs : Succeeded(p)
    /\ {inv[p].op : p \in Procs} = {"list_accounts", "search_similar_categories"}
    /\ tables = StoreAfter(EarlierWrites)
    /\ Len(embedLog) = 1

\* A transaction search has failed at its RPC, and the store is the one
\* of the start.
C28_FailedSearch ==
    \E p \in Procs :
        /\ Errored(p) /\ inv[p].op = "search_similar_transactions"
        /\ Kinds(p) = <<"embed", "rpc">>
        /\ tables = StoreAfter(EarlierWrites)


\* The search term of the list_accounts in slot p is absent, empty or
\* whitespace only.
NoTerm(p) ==
    \/ inv[p].input.search = None
    \/ \A i \in DOMAIN inv[p].input.search[1] : inv[p].input.search[1][i] \in White_Space

\* C29: a list_accounts that succeeded with a search term that is absent,
\* empty or whitespace only returns the rows the store returned, all of
\* them, nameless rows too, unchanged and in the same order; with any
\* other term it keeps a row exactly when the row's lower-cased name
\* contains the lower-cased term without its leading and trailing
\* whitespace.
C29_BlankTermNoFilter ==
    \A p \in Procs :
        inv[p].op = "list_accounts" /\ Succeeded(p) =>
            LET value == unwrap(inv[p].result).value
            IN  /\ NoTerm(p) => value = inv[p].rows
                /\ ~NoTerm(p) =>
                      /\ IsSubsequence(value, inv[p].rows)
                      /\ \A i \in DOMAIN inv[p].rows :
                            NameContains(inv[p].rows[i], trim(inv[p].input.search[1]))
                            <=> \E j \in DOMAIN value : value[j] = inv[p].rows[i]

\* A list with the term "  " returned the five rows the store returned,
\* the row with a null name and the row with no name column among them.
C29_Witness ==
    /\ Succeeded(Main) /\ inv[Main].op = "list_accounts"
    /\ inv[Main].input = [type |-> None, search |-> Some(Blank)]
    /\ Len(inv[Main].rows) = 5
    /\ unwrap(inv[Main].result).value = inv[Main].rows
    /\ \E i \in DOMAIN inv[Main].rows : "name" \notin DOMAIN inv[Main].rows[i]
    /\ \E i \in DOMAIN inv[Main].rows :
          "name" \in DOMAIN inv[Main].rows[i] /\ inv[Main].rows[i].name = Null

\* A list with the term " Ch " returned the two rows named "Chk" of the
\* five the store returned.
C29_PaddedTerm ==
    /\ Succeeded(Main) /\ inv[Main].op = "list_accounts"
    /\ inv[Main].input = [type |-> None, search |-> Some(<<" ", "C", "h", " ">>)]
    /\ Len(inv[Main].rows) = 5
    /\ Len(unwrap(inv[Main].result).value) = 2

-----------------------------------------------------------------------------
(* C30: the Embedder test doubles against the EmbeddingService. *)

\* The create_transaction in slot p has an embedding request pending or
\* issued.
HasEmbedRequest(p) == inv[p].pc = "embed" \/ EmbedsOf(inv[p].call) # << >>

\* The create_transaction in slot p embeds and persists as it would on
\* the EmbeddingService: it has an embedding request if and only if
\* EmbeddingService::maybe_embed calls embed for its description, and a
\* row it inserted carries a vector in exactly that case.
AsOnEmbeddingService(p) ==
    /\ HasEmbedRequest(p) <=> is_some(maybe_embed(inv[p].input.description))
    /\ \A i \in WritesOf(inv[p].call) :
          storeLog[i].payload.embedding # Null
          <=> is_some(maybe_embed(inv[p].input.description))

\* C30: with any of the three Embedder implementations, a
\* create_transaction issues an embedding call exactly when
\* EmbeddingService.maybe_embed would issue one for its description, and
\* persists an embedding in exactly those cases.
C30_DoublesSubstitutable ==
    \A p \in Procs :
        inv[p].op = "create_transaction" => AsOnEmbeddingService(p)

\* What the code does: the doubles agree with the EmbeddingService on an
\* absent description and on a description that is not blank, and the
\* EmbeddingService itself always embeds as stated.
C30_AgreeOffBlank ==
    \A p \in Procs :
        /\ inv[p].op = "create_transaction"
        /\ \/ boot.impl = "EmbeddingService"
           \/ inv[p].input.description = None
           \/ NonBlank(inv[p].input.description)
        => AsOnEmbeddingService(p)

\* A server built on a test double has created a transaction whose
\* description is "  ": the double was asked to embed the blank text and
\* the inserted row carries its vector.
C30_BlankEmbedded ==
    /\ boot.impl \in {"MockEmbedder", "FakeEmbedder"}
    /\ Succeeded(Main) /\ inv[Main].op = "create_transaction"
    /\ inv[Main].input.description = Some(Blank)
    /\ Len(EmbedsOf(inv[Main].call)) = 1
    /\ EmbedsOf(inv[Main].call)[1].text = Blank
    /\ \E i \in WritesOf(inv[Main].call) :
          storeLog[i].payload.embedding = Vec(DoubleVector)

=============================================================================
